---- MODULE Spec2Model ----
(***************************************************************************)
(* A model of the risp evaluator (src/src/eval.rs) over the Object type of *)
(* src/src/object.rs.  eval_obj and its helpers are big-step operators     *)
(* that thread an explicit evaluator state: the store of environment       *)
(* frames (an Rc<RefCell<Env>> is an index into the store), the lines      *)
(* written by print, the greatest number of simultaneously active eval_obj *)
(* invocations, a log of the frames created for lambda invocations, and a  *)
(* log of the atoms met as current form: the form eval_obj was called      *)
(* with, the current form and the value returned.                          *)
(* EvalProgram hands eval one program of the bounded families in the       *)
(* environment a test of eval.rs creates.  ReplLine                        *)
(* is the body of the loop of main.rs on what it reads next: exit or the   *)
(* end of the input leaves the loop; a line that leaves a parenthesis open *)
(* is kept in current_source and nothing is evaluated; otherwise the source *)
(* accumulated so far is parsed and evaluated in the environment main      *)
(* creates once and reuses, and its value is written to the output.  A     *)
(* program that does not parse makes eval return the parser's error without *)
(* evaluating anything, and an error ends main.                            *)
(* tokenize (src/src/lexer.rs) is modelled as a function of the text, and  *)
(* one action applies it to a text of a bounded family.                    *)
(*                                                                         *)
(* Scope of the abstraction:                                               *)
(*  - a String holds a sequence of character codes;                        *)
(*  - a Float is an IEEE-754 binary64 value: NaN, an infinity, or a signed *)
(*    m * 2^e with m odd (empty for a zero); every operation returns the   *)
(*    exact result rounded to nearest, ties to even, with gradual          *)
(*    underflow and overflow to an infinity, as the f64 of the code does;  *)
(*  - an Integer is an i64; a panic of the code is a Panic outcome.  The   *)
(*    build decides what + - * do on overflow: overflow_checks is chosen   *)
(*    when the program starts and never changes (no Cargo.toml fixes the   *)
(*    profile);                                                            *)
(*  - the parser (parser.rs), whose source is not available, builds one    *)
(*    root form from the tokens of the lexer;                              *)
(*  - an error carries the literal part of its message and the symbol it   *)
(*    names, not the Display rendering of the operands;                    *)
(*  - a line of the output holds the objects written, unrendered, and the  *)
(*    literal text main writes around them; what main writes to stderr     *)
(*    when it returns an error is not recorded.                            *)
(***************************************************************************)
EXTENDS Integers, Sequences, FiniteSets, TLC

VARIABLES pc, input, program, result, frames, stdout, maxdepth, calls,
          current_source, unclosed_lparen, overflow_checks, atoms

vars == <<pc, input, program, result, frames, stdout, maxdepth, calls,
          current_source, unclosed_lparen, overflow_checks, atoms>>

RECURSIVE eval_obj(_, _, _, _)
RECURSIVE eval_loop(_, _, _, _, _)
RECURSIVE eval_loop_returns_called(_, _, _, _, _)
RECURSIVE eval_if(_, _, _, _, _)
RECURSIVE eval_if_truthy(_, _, _, _, _)
RECURSIVE eval_application(_, _, _, _, _)
RECURSIVE bind_params(_, _, _, _, _, _, _)
RECURSIVE bind_params_checks_arity(_, _, _, _, _, _, _)
RECURSIVE eval_sequence(_, _, _, _, _, _)
RECURSIVE eval_sequence_keeps_void(_, _, _, _, _, _)
RECURSIVE eval_define(_, _, _, _)
RECURSIVE eval_define_root(_, _, _, _)
RECURSIVE eval_list_data(_, _, _, _)
RECURSIVE eval_elements(_, _, _, _, _, _)
RECURSIVE eval_map(_, _, _, _)
RECURSIVE map_items(_, _, _, _, _, _, _)
RECURSIVE eval_filter(_, _, _, _)
RECURSIVE filter_items(_, _, _, _, _, _, _)
RECURSIVE eval_reduce(_, _, _, _)
RECURSIVE reduce_items(_, _, _, _, _, _, _)
RECURSIVE eval_binary_op(_, _, _, _)
RECURSIVE eval_keyword(_, _, _, _)
RECURSIVE print_list(_, _, _, _)
RECURSIVE Env_get(_, _, _)
RECURSIVE BFromNat(_)
RECURSIVE BToNat(_)
RECURSIVE BMulRange(_, _, _, _)
RECURSIVE QDigit(_, _, _, _)
RECURSIVE BDivFrom(_, _, _, _)
RECURSIVE BDivNext(_, _, _, _)
RECURSIVE BPow10(_)
RECURSIVE BPow2Mod(_, _)
RECURSIVE StrCmp(_, _)

(***************************************************************************)
(* Object (object.rs): one tagged union for forms and values.              *)
(***************************************************************************)
Void == [tag |-> "Void"]

Integer(n) == [tag |-> "Integer", n |-> n]

Float(f) == [tag |-> "Float", f |-> f]

Bool(b) == [tag |-> "Bool", b |-> b]

String(s) == [tag |-> "String", s |-> s]

Symbol(s) == [tag |-> "Symbol", name |-> s]

Keyword(s) == [tag |-> "Keyword", kw |-> s]

If == [tag |-> "If"]

BinaryOp(s) == [tag |-> "BinaryOp", op |-> s]

Lambda(params, body, env) ==
    [tag |-> "Lambda", params |-> params, body |-> body, env |-> env]

List(l) == [tag |-> "List", items |-> l]

ListData(l) == [tag |-> "ListData", elems |-> l]

(***************************************************************************)
(* Result<Object, String>, and a third outcome for a Rust panic, which     *)
(* unwinds through every caller.                                           *)
(***************************************************************************)
Ok(v) == [k |-> "Ok", v |-> v]

Err(msg, sym) == [k |-> "Err", msg |-> msg, sym |-> sym]

Panic(msg) == [k |-> "Panic", msg |-> msg]

Ret(r, st) == [r |-> r, st |-> st]

(***************************************************************************)
(* Env (env.rs is not among the sources; modelled from the spec's section  *)
(* 4.2): a frame has local bindings and an optional parent (0 for none).   *)
(***************************************************************************)
NoVars == [n \in {} |-> Void]

Env_new == [vars |-> NoVars, parent |-> 0]

Env_extend(fs, parent) == Append(fs, [vars |-> NoVars, parent |-> parent])

Env_get(fs, e, name) ==
    IF name \in DOMAIN fs[e].vars
    THEN [some |-> TRUE, val |-> fs[e].vars[name]]
    ELSE IF fs[e].parent = 0
         THEN [some |-> FALSE]
         ELSE Env_get(fs, fs[e].parent, name)

Env_set(fs, e, name, val) ==
    [fs EXCEPT ![e].vars =
        [n \in (DOMAIN @) \cup {name} |-> IF n = name THEN val ELSE @[n]]]

(***************************************************************************)
(* i64 and f64 arithmetic as Rust computes it.                             *)
(***************************************************************************)
Abs(x) == IF x < 0 THEN -x ELSE x

Max(a, b) == IF a > b THEN a ELSE b

Min(a, b) == IF a < b THEN a ELSE b

(***************************************************************************)
(* Natural numbers of any size, for the 53-bit significands of f64 and the *)
(* exact intermediate results of its operations: a number is the sequence  *)
(* of its limbs of LimbBits bits, the lowest limb first, the highest limb  *)
(* not 0; the empty sequence is 0.                                         *)
(***************************************************************************)
LimbBits == 15

LimbBase == 2^LimbBits

\* limb i of a, 0 outside a
Limb(a, i) == IF i \in 1..Len(a) THEN a[i] ELSE 0

\* the greatest element of a set of positive numbers, or 0 for the empty set
Highest(js) == IF js = {} THEN 0 ELSE CHOOSE j \in js : \A k \in js : k <= j

BNorm(a) == SubSeq(a, 1, Highest({i \in 1..Len(a) : a[i] # 0}))

BFromNat(n) ==
    IF n = 0 THEN <<>> ELSE <<n % LimbBase>> \o BFromNat(n \div LimbBase)

BToNat(a) == IF a = <<>> THEN 0 ELSE a[1] + LimbBase * BToNat(Tail(a))

\* the order of a and b, of equal length, decided at their highest different
\* limb i, or i = 0 when there is none
CmpAt(a, b, i) == IF i = 0 THEN 0 ELSE IF a[i] < b[i] THEN -1 ELSE 1

\* -1, 0, 1 as a < b, a = b, a > b
BCmp(a, b) ==
    IF Len(a) # Len(b) THEN (IF Len(a) < Len(b) THEN -1 ELSE 1)
    ELSE CmpAt(a, b, Highest({i \in 1..Len(a) : a[i] # b[i]}))

\* the carry out of limb j of a + b when no carry comes in, no carry from j = 0
CarryAt(a, b, j) ==
    IF j # 0 /\ Limb(a, j) + Limb(b, j) >= LimbBase THEN 1 ELSE 0

\* the carry into limb i of a + b: the one that leaves the highest limb below
\* i that does not just pass a carry on
Carry(a, b, i) ==
    CarryAt(a, b, Highest({k \in 1..(i - 1) :
                              Limb(a, k) + Limb(b, k) # LimbBase - 1}))

BAdd(a, b) ==
    BNorm([i \in 1..(Max(Len(a), Len(b)) + 1) |->
              (Limb(a, i) + Limb(b, i) + Carry(a, b, i)) % LimbBase])

BorrowAt(a, b, j) == IF j # 0 /\ Limb(a, j) < Limb(b, j) THEN 1 ELSE 0

\* the borrow from limb i of a - b
Borrow(a, b, i) ==
    BorrowAt(a, b, Highest({k \in 1..(i - 1) : Limb(a, k) # Limb(b, k)}))

\* a - b for a >= b
BSub(a, b) ==
    BNorm([i \in 1..Len(a) |->
              (a[i] - Limb(b, i) - Borrow(a, b, i) + LimbBase) % LimbBase])

\* a * s for s < LimbBase: the low limbs of the products of the limbs, plus
\* their high limbs one place up
BMulSmall(a, s) ==
    BAdd(BNorm([i \in 1..Len(a) |-> (a[i] * s) % LimbBase]),
         BNorm(<<0>> \o [i \in 1..Len(a) |-> (a[i] * s) \div LimbBase]))

\* a * LimbBase^n
BShiftLimbs(a, n) == IF a = <<>> THEN a ELSE [i \in 1..n |-> 0] \o a

\* a times the limbs lo..hi of b, each at its place
BMulRange(a, b, lo, hi) ==
    IF lo = hi THEN BShiftLimbs(BMulSmall(a, b[lo]), lo - 1)
    ELSE BAdd(BMulRange(a, b, lo, (lo + hi) \div 2),
              BMulRange(a, b, ((lo + hi) \div 2) + 1, hi))

BMul(a, b) == IF a = <<>> \/ b = <<>> THEN <<>> ELSE BMulRange(a, b, 1, Len(b))

\* a * 2^r for r < LimbBits
BShlBy(a, r) ==
    BNorm([i \in 1..(Len(a) + 1) |->
              (Limb(a, i) % 2^(LimbBits - r)) * 2^r
              + (Limb(a, i - 1) \div 2^(LimbBits - r))])

\* a * 2^k
BShl(a, k) == BShiftLimbs(BShlBy(a, k % LimbBits), (k \div LimbBits))

\* a \div 2^(LimbBits * d + r) for r < LimbBits
BShrBy(a, d, r) ==
    BNorm([i \in 1..(Len(a) - d) |->
              (Limb(a, i + d) \div 2^r)
              + (Limb(a, i + d + 1) % 2^r) * 2^(LimbBits - r)])

\* a \div 2^k
BShr(a, k) == BShrBy(a, k \div LimbBits, k % LimbBits)

BOdd(a) == a # <<>> /\ a[1] % 2 = 1

\* the number of bits of a: 2^(BitLen(a) - 1) <= a < 2^BitLen(a) for a > 0
BitLen(a) ==
    IF a = <<>> THEN 0
    ELSE LimbBits * (Len(a) - 1)
         + (CHOOSE k \in 1..LimbBits : 2^(k - 1) <= a[Len(a)] /\ a[Len(a)] < 2^k)

\* the number of 0 bits below the lowest 1 bit of a > 0, a[i] being its
\* lowest limb that is not 0
ZerosBelow(a, i) ==
    LimbBits * (i - 1)
    + (CHOOSE u \in 0..(LimbBits - 1) : a[i] % 2^u = 0 /\ a[i] % 2^(u + 1) # 0)

TrailingZeros(a) ==
    ZerosBelow(a, CHOOSE j \in 1..Len(a) :
                      a[j] # 0 /\ \A k \in 1..(j - 1) : a[k] = 0)

\* the greatest digit t >= q, built from the bits below `bit`, with b * t <= r
QDigit(r, b, q, bit) ==
    IF bit < 0 THEN q
    ELSE IF BCmp(BMulSmall(b, q + 2^bit), r) <= 0
         THEN QDigit(r, b, q + 2^bit, bit - 1)
         ELSE QDigit(r, b, q, bit - 1)

\* one step of the long division by b: the digit d of r and what is left of r
DivStep(r, b, d) == [q |-> d, r |-> BSub(r, BMulSmall(b, d))]

\* the digits below, then the digit d
PutDigit(rest, d) == [q |-> Append(rest.q, d), r |-> rest.r]

\* long division of the limbs a[1..i], from the highest down, r being the
\* remainder of the limbs above them
BDivFrom(a, b, i, r) ==
    IF i = 0 THEN [q |-> <<>>, r |-> r]
    ELSE BDivNext(a, b, i, DivStep(BNorm(<<a[i]>> \o r), b,
                                   QDigit(BNorm(<<a[i]>> \o r), b, 0,
                                          LimbBits - 1)))

BDivNext(a, b, i, s) == PutDigit(BDivFrom(a, b, i - 1, s.r), s.q)

NormQuotient(d) == [q |-> BNorm(d.q), r |-> d.r]

\* quotient and remainder of a by b > 0
BDivMod(a, b) ==
    IF Len(a) < Len(b) THEN [q |-> <<>>, r |-> a]
    ELSE NormQuotient(BDivFrom(a, b, Len(a) - Len(b) + 1,
                               SubSeq(a, Len(a) - Len(b) + 2, Len(a))))

\* x * y modulo m
BMulMod(x, y, m) == BDivMod(BMul(x, y), m).r

BPow10(n) ==
    IF n = 0 THEN <<1>>
    ELSE IF n % 2 = 1 THEN BMulSmall(BPow10(n - 1), 10)
    ELSE BMul(BPow10(n \div 2), BPow10(n \div 2))

\* 2^k modulo m
BPow2Mod(k, m) ==
    BMulMod(IF k = 0 THEN <<1>>
            ELSE IF k % 2 = 1 THEN <<2>> ELSE BPow2Mod(k \div 2, m),
            IF k = 0 THEN <<1>>
            ELSE IF k % 2 = 1 THEN BPow2Mod(k - 1, m) ELSE BPow2Mod(k \div 2, m),
            m)

(***************************************************************************)
(* f64 (IEEE 754 binary64) as Rust computes with it.  A finite value is    *)
(* (-1)^neg * m * 2^e with m odd, or m = 0 and e = 0 for the two zeros;    *)
(* every operation returns the exact result rounded to the nearest value   *)
(* of 53 significant bits, ties to even, with gradual underflow and        *)
(* overflow to an infinity.  NaN is one value (sign and payload are not    *)
(* observed by the program).                                               *)
(***************************************************************************)
\* bits of the significand
MantBits == 53

\* the exponent of the lowest bit of the smallest subnormal
MinExp == -1074

\* the exponent of the highest bit of the greatest finite value
MaxExp == 1023

F64Value(c, neg, m, e) == [c |-> c, neg |-> neg, m |-> m, e |-> e]

FNaN == F64Value("nan", FALSE, <<>>, 0)

FInf(neg) == F64Value("inf", neg, <<>>, 0)

FZero(neg) == F64Value("finite", neg, <<>>, 0)

IsNaN(f) == f.c = "nan"

IsInf(f) == f.c = "inf"

IsZero(f) == f.c = "finite" /\ f.m = <<>>

\* q * 2^e for q > 0 with z trailing zero bits
FOdd(neg, q, e, z) == F64Value("finite", neg, BShr(q, z), e + z)

\* the value (-1)^neg * q * 2^e of at most 53 significant bits
FCanon(neg, q, e) ==
    IF q = <<>> THEN FZero(neg) ELSE FOdd(neg, q, e, TrailingZeros(q))

\* t or t - 1, the e with 2^e <= N / D < 2^(e + 1), t being the difference
\* of the bit lengths of N and D
FloorLog2At(N, D, t) ==
    IF BCmp(BShl(N, Max(-t, 0)), BShl(D, Max(t, 0))) >= 0 THEN t ELSE t - 1

FloorLog2(N, D) == FloorLog2At(N, D, BitLen(N) - BitLen(D))

\* q, or q + 1 when the remainder is more than half the divisor (half is the
\* order of twice the remainder and the divisor) or is half of it and q is odd
RoundEven(q, half) ==
    IF half > 0 \/ (half = 0 /\ BOdd(q)) THEN BAdd(q, <<1>>) ELSE q

\* the integer nearest to the quotient of the division dm by D
Nearest(dm, D) == RoundEven(dm.q, BCmp(BAdd(dm.r, dm.r), D))

NearestQuotient(N, D) == Nearest(BDivMod(N, D), D)

\* q * 2^low, or an infinity when rounding carried it past the greatest value
FFinite(neg, q, low) ==
    IF BitLen(q) + low - 1 > MaxExp THEN FInf(neg) ELSE FCanon(neg, q, low)

\* (N / D) * 2^ex rounded to a multiple of 2^low
FRoundLow(neg, N, D, ex, low) ==
    FFinite(neg, NearestQuotient(BShl(N, Max(ex - low, 0)),
                                 BShl(D, Max(low - ex, 0))), low)

\* (N / D) * 2^ex rounded, 2^top being the highest power of 2 not above it
FRoundTop(neg, N, D, ex, top) ==
    IF top > MaxExp THEN FInf(neg)
    ELSE IF top < MinExp - 1 THEN FZero(neg)
    ELSE FRoundLow(neg, N, D, ex, Max(top - (MantBits - 1), MinExp))

\* the f64 nearest to (-1)^neg * (N / D) * 2^ex, for N >= 0 and D > 0
FRound(neg, N, D, ex) ==
    IF N = <<>> THEN FZero(neg)
    ELSE FRoundTop(neg, N, D, ex, FloorLog2(N, D) + ex)

\* the f64 nearest to the rational num / den, den > 0
F64(num, den) == FRound(num < 0, BFromNat(Abs(num)), BFromNat(den), 0)

\* 1 if the z low bits of mag are above half of 2^z, or are the half and q,
\* the bits above them, is odd; 0 otherwise
RoundUp(mag, q, z) ==
    IF BCmp(BShl(BSub(mag, BShl(q, z)), 1), BShl(<<1>>, z)) + (Limb(q, 1) % 2) > 0
    THEN <<1>> ELSE <<>>

\* mag with its z low bits rounded away, to nearest, ties to even
FromIntBits(neg, mag, q, z) == FCanon(neg, BAdd(q, RoundUp(mag, q, z)), z)

\* `n as f64` for the i64 of sign neg and magnitude mag: exact for at most
\* MantBits bits, the nearest f64 (ties to even) for more
FromInt(neg, mag) ==
    IF BitLen(mag) <= MantBits THEN FCanon(neg, mag, 0)
    ELSE FromIntBits(neg, mag, BShr(mag, BitLen(mag) - MantBits),
                     BitLen(mag) - MantBits)

FNeg(a) == IF IsNaN(a) THEN a ELSE [a EXCEPT !.neg = ~a.neg]

\* the magnitudes of two finite values as multiples of 2^e, e the lower exponent
Aligned(a, b) ==
    [a |-> BShl(a.m, a.e - Min(a.e, b.e)), b |-> BShl(b.m, b.e - Min(a.e, b.e)),
     e |-> Min(a.e, b.e)]

\* a + b for finite a and b, neither 0, x being their aligned magnitudes and
\* c the order of the magnitudes
FSum(a, b, x, c) ==
    IF a.neg # b.neg /\ c = 0 THEN FZero(FALSE)
    ELSE FRound(IF a.neg = b.neg \/ c > 0 THEN a.neg ELSE b.neg,
                IF a.neg = b.neg THEN BAdd(x.a, x.b)
                ELSE IF c > 0 THEN BSub(x.a, x.b) ELSE BSub(x.b, x.a),
                <<1>>, x.e)

FSumAligned(a, b, x) == FSum(a, b, x, BCmp(x.a, x.b))

FAdd(a, b) ==
    IF IsNaN(a) \/ IsNaN(b) THEN FNaN
    ELSE IF IsInf(a) /\ IsInf(b) THEN (IF a.neg = b.neg THEN a ELSE FNaN)
    ELSE IF IsInf(a) THEN a
    ELSE IF IsInf(b) THEN b
    ELSE IF IsZero(a) /\ IsZero(b) THEN FZero(a.neg /\ b.neg)
    ELSE IF IsZero(a) THEN b
    ELSE IF IsZero(b) THEN a
    ELSE FSumAligned(a, b, Aligned(a, b))

FSub(a, b) == FAdd(a, FNeg(b))

FMul(a, b) ==
    IF IsNaN(a) \/ IsNaN(b) THEN FNaN
    ELSE IF (IsInf(a) /\ IsZero(b)) \/ (IsZero(a) /\ IsInf(b)) THEN FNaN
    ELSE IF IsInf(a) \/ IsInf(b) THEN FInf(a.neg # b.neg)
    ELSE FRound(a.neg # b.neg, BMul(a.m, b.m), <<1>>, a.e + b.e)

FDiv(a, b) ==
    IF IsNaN(a) \/ IsNaN(b) THEN FNaN
    ELSE IF (IsInf(a) /\ IsInf(b)) \/ (IsZero(a) /\ IsZero(b)) THEN FNaN
    ELSE IF IsInf(a) \/ IsZero(b) THEN FInf(a.neg # b.neg)
    ELSE IF IsInf(b) THEN FZero(a.neg # b.neg)
    ELSE FRound(a.neg # b.neg, a.m, b.m, a.e - b.e)

\* the remainder of a.m * 2^k by M, as a multiple of 2^e
FRemBy(a, k, M, e) ==
    FRound(a.neg, BMulMod(a.m, BPow2Mod(k, M), M), <<1>>, e)

\* f64 `%`: the remainder of the truncating division, with the dividend's
\* sign; it is exact
FRem(a, b) ==
    IF IsNaN(a) \/ IsNaN(b) \/ IsInf(a) \/ IsZero(b) THEN FNaN
    ELSE IF IsInf(b) \/ IsZero(a) THEN a
    ELSE FRemBy(a, Max(a.e - b.e, 0), BShl(b.m, Max(b.e - a.e, 0)),
                Min(a.e, b.e))

\* -1, 0, 1 as a value is negative, a zero, positive
FSgn(a) == IF IsZero(a) THEN 0 ELSE IF a.neg THEN -1 ELSE 1

AlignedCmp(x) == BCmp(x.a, x.b)

\* the order of the magnitudes of two values neither of which is NaN
FMagCmp(a, b) ==
    IF IsInf(a) /\ IsInf(b) THEN 0
    ELSE IF IsInf(a) THEN 1
    ELSE IF IsInf(b) THEN -1
    ELSE AlignedCmp(Aligned(a, b))

\* -1, 0, 1 for two floats neither of which is NaN
FOrd(a, b) ==
    IF FSgn(a) # FSgn(b) THEN (IF FSgn(a) < FSgn(b) THEN -1 ELSE 1)
    ELSE FSgn(a) * FMagCmp(a, b)

FLt(a, b) == ~IsNaN(a) /\ ~IsNaN(b) /\ FOrd(a, b) = -1

FGt(a, b) == ~IsNaN(a) /\ ~IsNaN(b) /\ FOrd(a, b) = 1

FNe(a, b) == IsNaN(a) \/ IsNaN(b) \/ FOrd(a, b) # 0

\* String::cmp: the lexicographic order of the two character sequences
StrCmp(a, b) ==
    IF Len(a) = 0 /\ Len(b) = 0 THEN 0
    ELSE IF Len(a) = 0 THEN -1
    ELSE IF Len(b) = 0 THEN 1
    ELSE IF Head(a) < Head(b) THEN -1
    ELSE IF Head(a) > Head(b) THEN 1
    ELSE StrCmp(Tail(a), Tail(b))

(***************************************************************************)
(* i64.  An Integer whose magnitude is below 2^30 holds it in n; a wider   *)
(* one holds its sign and the limbs of its magnitude.  + - * overflow as   *)
(* the build has it: a panic with overflow checks (the dev profile), the   *)
(* two's complement wrap without them (the release profile).  / and % by   *)
(* zero, and i64::MIN / -1 and i64::MIN % -1, panic in every build.        *)
(***************************************************************************)
WideInteger(neg, mag) == [tag |-> "Integer", neg |-> neg, mag |-> mag]

IsWide(o) == "mag" \in DOMAIN o

\* the Integer of sign neg and magnitude mag
I64(neg, mag) ==
    IF Len(mag) <= 2 THEN Integer(IF neg THEN -BToNat(mag) ELSE BToNat(mag))
    ELSE WideInteger(neg, mag)

SignOf(o) == IF IsWide(o) THEN o.neg ELSE o.n < 0

MagOf(o) == IF IsWide(o) THEN o.mag ELSE BFromNat(Abs(o.n))

TwoTo63 == BShl(<<1>>, 63)

TwoTo64 == BShl(<<1>>, 64)

\* an exact integer: a sign and a magnitude, zero without sign
Signed(neg, mag) == [neg |-> neg /\ mag # <<>>, mag |-> mag]

SignedOf(o) == Signed(SignOf(o), MagOf(o))

SAdd(a, b) ==
    IF a.neg = b.neg THEN Signed(a.neg, BAdd(a.mag, b.mag))
    ELSE IF BCmp(a.mag, b.mag) >= 0 THEN Signed(a.neg, BSub(a.mag, b.mag))
    ELSE Signed(b.neg, BSub(b.mag, a.mag))

SNeg(a) == Signed(~a.neg, a.mag)

SMul(a, b) == Signed(a.neg # b.neg, BMul(a.mag, b.mag))

\* -1, 0, 1 as a is below, equal to, above b
SCmp(a, b) ==
    IF a.neg # b.neg THEN (IF a.neg THEN -1 ELSE 1)
    ELSE IF a.neg THEN BCmp(b.mag, a.mag) ELSE BCmp(a.mag, b.mag)

\* -2^63 <= x < 2^63
InI64(x) == BCmp(x.mag, TwoTo63) < (IF x.neg THEN 1 ELSE 0)

\* the residue u < 2^64 as the i64 of the same bits
FromBits(u) ==
    IF BCmp(u, TwoTo63) >= 0 THEN Signed(TRUE, BSub(TwoTo64, u))
    ELSE Signed(FALSE, u)

\* x modulo 2^64, r being the residue of its magnitude
WrapResidue(x, r) == FromBits(IF x.neg /\ r # <<>> THEN BSub(TwoTo64, r) ELSE r)

\* the two's complement wrap of x
Wrap(x) == WrapResidue(x, BSub(x.mag, BShl(BShr(x.mag, 64), 64)))

ObjectOfSigned(x) == I64(x.neg, x.mag)

\* the outcome of an i64 `+`, `-` or `*` whose exact result is x
Overflowing(x, panic, checked) ==
    IF InI64(x) THEN Ok(ObjectOfSigned(x))
    ELSE IF checked THEN Panic(panic)
    ELSE Ok(ObjectOfSigned(Wrap(x)))

i64_add(l, r, checked) ==
    Overflowing(SAdd(SignedOf(l), SignedOf(r)),
                "attempt to add with overflow", checked)

i64_sub(l, r, checked) ==
    Overflowing(SAdd(SignedOf(l), SNeg(SignedOf(r))),
                "attempt to subtract with overflow", checked)

i64_mul(l, r, checked) ==
    Overflowing(SMul(SignedOf(l), SignedOf(r)),
                "attempt to multiply with overflow", checked)

IsI64Min(o) == IsWide(o) /\ o.neg /\ o.mag = TwoTo63

\* i64 `/` truncates toward zero
i64_div(l, r) ==
    IF r = Integer(0) THEN Panic("attempt to divide by zero")
    ELSE IF IsI64Min(l) /\ r = Integer(-1)
    THEN Panic("attempt to divide with overflow")
    ELSE Ok(ObjectOfSigned(Signed(SignOf(l) # SignOf(r),
                                  BDivMod(MagOf(l), MagOf(r)).q)))

\* i64 `%` has the sign of the dividend
i64_rem(l, r) ==
    IF r = Integer(0)
    THEN Panic("attempt to calculate the remainder with a divisor of zero")
    ELSE IF IsI64Min(l) /\ r = Integer(-1)
    THEN Panic("attempt to calculate the remainder with overflow")
    ELSE Ok(ObjectOfSigned(Signed(SignOf(l), BDivMod(MagOf(l), MagOf(r)).r)))

i64_cmp(l, r) == SCmp(SignedOf(l), SignedOf(r))

(***************************************************************************)
(* eval_binary_op's dispatch on the operand types, one operator per arm.   *)
(***************************************************************************)
IsInt(o) == o.tag = "Integer"

IsFloat(o) == o.tag = "Float"

IsStr(o) == o.tag = "String"

IsBool(o) == o.tag = "Bool"

\* the f64 an Integer or Float operand is used as in a mixed arm
AsF(o) == IF IsInt(o) THEN FromInt(SignOf(o), MagOf(o)) ELSE o.f

Numeric(left, right) == (IsInt(left) \/ IsFloat(left)) /\ (IsInt(right) \/ IsFloat(right))

op_add(left, right, checked) ==
    IF IsInt(left) /\ IsInt(right) THEN i64_add(left, right, checked)
    ELSE IF Numeric(left, right) THEN Ok(Float(FAdd(AsF(left), AsF(right))))
    ELSE IF IsStr(left) /\ IsStr(right) THEN Ok(String(left.s \o right.s))
    ELSE Err("Invalid types for + operator", "")

\* op_sub without the arm for a Float minus an Integer
op_sub_missing_arm(left, right, checked) ==
    IF IsInt(left) /\ IsInt(right) THEN i64_sub(left, right, checked)
    ELSE IF Numeric(left, right) /\ ~(IsFloat(left) /\ IsInt(right))
         THEN Ok(Float(FSub(AsF(left), AsF(right))))
    ELSE Err("Invalid types for - operator", "")

op_sub(left, right, checked) ==
    IF IsInt(left) /\ IsInt(right) THEN i64_sub(left, right, checked)
    ELSE IF Numeric(left, right) THEN Ok(Float(FSub(AsF(left), AsF(right))))
    ELSE Err("Invalid types for - operator", "")

op_mul(left, right, checked) ==
    IF IsInt(left) /\ IsInt(right) THEN i64_mul(left, right, checked)
    ELSE IF Numeric(left, right) THEN Ok(Float(FMul(AsF(left), AsF(right))))
    ELSE Err("Invalid types for * operator", "")

\* op_div whose Integer arm faults on a zero divisor alone and wraps
\* i64::MIN / -1
op_div_zero_only(left, right) ==
    IF IsInt(left) /\ IsInt(right)
    THEN IF right = Integer(0) THEN Panic("attempt to divide by zero")
         ELSE Ok(ObjectOfSigned(Wrap(Signed(SignOf(left) # SignOf(right),
                                            BDivMod(MagOf(left), MagOf(right)).q))))
    ELSE IF Numeric(left, right) THEN Ok(Float(FDiv(AsF(left), AsF(right))))
    ELSE Err("Invalid types for / operator", "")

op_div(left, right) ==
    IF IsInt(left) /\ IsInt(right) THEN i64_div(left, right)
    ELSE IF Numeric(left, right) THEN Ok(Float(FDiv(AsF(left), AsF(right))))
    ELSE Err("Invalid types for / operator", "")

op_rem(left, right) ==
    IF IsInt(left) /\ IsInt(right) THEN i64_rem(left, right)
    ELSE IF Numeric(left, right) THEN Ok(Float(FRem(AsF(left), AsF(right))))
    ELSE Err("Invalid types for % operator", "")

op_lt(left, right) ==
    IF IsInt(left) /\ IsInt(right) THEN Ok(Bool(i64_cmp(left, right) = -1))
    ELSE IF Numeric(left, right) THEN Ok(Bool(FLt(AsF(left), AsF(right))))
    ELSE IF IsStr(left) /\ IsStr(right) THEN Ok(Bool(StrCmp(left.s, right.s) = -1))
    ELSE Err("Invalid types for < operator", "")

op_gt(left, right) ==
    IF IsInt(left) /\ IsInt(right) THEN Ok(Bool(i64_cmp(left, right) = 1))
    ELSE IF Numeric(left, right) THEN Ok(Bool(FGt(AsF(left), AsF(right))))
    ELSE IF IsStr(left) /\ IsStr(right) THEN Ok(Bool(StrCmp(left.s, right.s) = 1))
    ELSE Err("Invalid types for > operator", "")

\* op_eq with the Float arms op_ne has
op_eq_with_floats(left, right) ==
    IF IsInt(left) /\ IsInt(right) THEN Ok(Bool(i64_cmp(left, right) = 0))
    ELSE IF Numeric(left, right) THEN Ok(Bool(~FNe(AsF(left), AsF(right))))
    ELSE IF IsStr(left) /\ IsStr(right) THEN Ok(Bool(left.s = right.s))
    ELSE Err("Invalid types for == operator", "")

op_eq(left, right) ==
    IF IsInt(left) /\ IsInt(right) THEN Ok(Bool(i64_cmp(left, right) = 0))
    ELSE IF IsStr(left) /\ IsStr(right) THEN Ok(Bool(left.s = right.s))
    ELSE Err("Invalid types for == operator", "")

op_ne(left, right) ==
    IF IsInt(left) /\ IsInt(right) THEN Ok(Bool(i64_cmp(left, right) # 0))
    ELSE IF Numeric(left, right) THEN Ok(Bool(FNe(AsF(left), AsF(right))))
    ELSE IF IsStr(left) /\ IsStr(right) THEN Ok(Bool(StrCmp(left.s, right.s) # 0))
    ELSE Err("Invalid types for != operator", "")

op_and(left, right) ==
    IF IsBool(left) /\ IsBool(right) THEN Ok(Bool(left.b /\ right.b))
    ELSE Err("Invalid types for & operator", "")

op_or(left, right) ==
    IF IsBool(left) /\ IsBool(right) THEN Ok(Bool(left.b \/ right.b))
    ELSE Err("Invalid types for | operator", "")

\* the match on the operator: the arms of + - * hold the i64 operations
\* whose overflow the build decides
binary_op(s, left, right, checked) ==
    CASE s = "+" -> op_add(left, right, checked)
      [] s = "-" -> op_sub(left, right, checked)
      [] s = "*" -> op_mul(left, right, checked)
      [] s = "/" -> op_div(left, right)
      [] s = "%" -> op_rem(left, right)
      [] s = "<" -> op_lt(left, right)
      [] s = ">" -> op_gt(left, right)
      [] s = "=" -> op_eq(left, right)
      [] s = "!=" -> op_ne(left, right)
      [] s = "&" -> op_and(left, right)
      [] s = "|" -> op_or(left, right)
      [] OTHER -> Err("Invalid infix operator", s)

eval_binary_op(list, env, st, d) ==
    IF Len(list) < 2 THEN Ret(Panic("index out of bounds"), st)
    ELSE LET l == eval_obj(list[2], env, st, d)
         IN  IF l.r.k # "Ok" THEN l
             ELSE IF Len(list) < 3 THEN Ret(Panic("index out of bounds"), l.st)
             ELSE LET r == eval_obj(list[3], env, l.st, d)
                  IN  IF r.r.k # "Ok" THEN r
                      ELSE IF list[1].tag # "BinaryOp"
                           THEN Ret(Err("Operator must be a symbol", ""), r.st)
                           ELSE Ret(binary_op(list[1].op, l.r.v, r.r.v,
                                              r.st.overflow_checks), r.st)

(***************************************************************************)
(* The evaluator state threaded through eval_obj, and the evaluator.       *)
(***************************************************************************)
\* the record of one lambda invocation: the frame made for it, the frame the
\* lambda captured and the frame of the caller
Call(via, frame, closure, caller) ==
    [via |-> via, frame |-> frame, closure |-> closure, caller |-> caller]

\* eval_symbol consulting the environment before the reserved names
eval_symbol_env_first(s, env, st) ==
    LET val == Env_get(st.frames, env, s)
    IN  IF val.some THEN Ret(Ok(val.val), st)
        ELSE IF s = "true" THEN Ret(Ok(Bool(TRUE)), st)
        ELSE IF s = "false" THEN Ret(Ok(Bool(FALSE)), st)
        ELSE IF s = "nil" THEN Ret(Ok(Void), st)
        ELSE Ret(Err("Unbound symbol", s), st)

eval_symbol(s, env, st) ==
    IF s = "true" THEN Ret(Ok(Bool(TRUE)), st)
    ELSE IF s = "false" THEN Ret(Ok(Bool(FALSE)), st)
    ELSE IF s = "nil" THEN Ret(Ok(Void), st)
    ELSE LET val == Env_get(st.frames, env, s)
         IN  IF ~val.some THEN Ret(Err("Unbound symbol", s), st)
             ELSE Ret(Ok(val.val), st)

\* an atom arm returns value; the log keeps the form eval_obj was called
\* with and the current form beside it
Atom(obj, current_obj, value, st) ==
    Ret(Ok(value),
        [st EXCEPT !.atoms = @ \cup {[called |-> obj, current |-> current_obj,
                                      value |-> value]}])

\* one invocation of eval_obj; d is the number of invocations active around it
eval_obj(obj, env, st, d) ==
    eval_loop(obj, obj, env, [st EXCEPT !.maxd = Max(@, d + 1)], d + 1)

\* eval_loop whose atom arms all return the form eval_obj was called with
eval_loop_returns_called(obj, current_obj, current_env, st, d) ==
    CASE current_obj.tag = "List" ->
            LET list == current_obj.items
            IN  IF Len(list) = 0 THEN Ret(Panic("index out of bounds"), st)
                ELSE CASE list[1].tag = "BinaryOp" ->
                            eval_binary_op(list, current_env, st, d)
                       [] list[1].tag = "Keyword" ->
                            eval_keyword(list, current_env, st, d)
                       [] list[1].tag = "If" ->
                            eval_if(obj, list, current_env, st, d)
                       [] list[1].tag = "Symbol" ->
                            eval_application(obj, list, current_env, st, d)
                       [] OTHER ->
                            eval_sequence(list, 1, current_env, <<>>, st, d)
      [] current_obj.tag = "Symbol" -> eval_symbol(current_obj.name, current_env, st)
      [] current_obj.tag = "Void" -> Ret(Ok(Void), st)
      [] current_obj.tag \in {"Lambda", "Bool", "Integer", "Float", "String",
                              "ListData"} ->
            Atom(obj, current_obj, obj, st)
      [] OTHER -> Ret(Err("Invalid object", ""), st)

\* one turn of eval_obj's loop on (current_obj, current_env)
eval_loop(obj, current_obj, current_env, st, d) ==
    CASE current_obj.tag = "List" ->
            LET list == current_obj.items
            IN  IF Len(list) = 0 THEN Ret(Panic("index out of bounds"), st)
                ELSE CASE list[1].tag = "BinaryOp" ->
                            eval_binary_op(list, current_env, st, d)
                       [] list[1].tag = "Keyword" ->
                            eval_keyword(list, current_env, st, d)
                       [] list[1].tag = "If" ->
                            eval_if(obj, list, current_env, st, d)
                       [] list[1].tag = "Symbol" ->
                            eval_application(obj, list, current_env, st, d)
                       [] OTHER ->
                            eval_sequence(list, 1, current_env, <<>>, st, d)
      [] current_obj.tag = "Symbol" -> eval_symbol(current_obj.name, current_env, st)
      [] current_obj.tag = "Void" -> Ret(Ok(Void), st)
      [] current_obj.tag = "Lambda" -> Atom(obj, current_obj, obj, st)
      [] current_obj.tag = "Bool" -> Atom(obj, current_obj, obj, st)
      [] current_obj.tag \in {"Integer", "Float", "String", "ListData"} ->
            Atom(obj, current_obj, current_obj, st)
      [] OTHER -> Ret(Err("Invalid object", ""), st)

\* eval_if taking every condition value other than Bool(false) for true
eval_if_truthy(obj, list, current_env, st, d) ==
    IF Len(list) # 4
    THEN Ret(Err("Invalid number of arguments for if statement", ""), st)
    ELSE LET c == eval_obj(list[2], current_env, st, d)
         IN  IF c.r.k # "Ok" THEN c
             ELSE eval_loop(obj, IF c.r.v = Bool(FALSE) THEN list[4] ELSE list[3],
                            current_env, c.st, d)

\* the If arm: the chosen branch becomes current_obj of the same invocation
eval_if(obj, list, current_env, st, d) ==
    IF Len(list) # 4
    THEN Ret(Err("Invalid number of arguments for if statement", ""), st)
    ELSE LET c == eval_obj(list[2], current_env, st, d)
         IN  IF c.r.k # "Ok" THEN c
             ELSE IF c.r.v.tag # "Bool"
                  THEN Ret(Err("Condition must be a boolean", ""), c.st)
                  ELSE eval_loop(obj, IF c.r.v.b THEN list[3] ELSE list[4],
                                 current_env, c.st, d)

\* bind_params returning an error value for a missing argument
bind_params_checks_arity(params, i, list, current_env, new_env, st, d) ==
    IF i > Len(params) THEN Ret(Ok(Void), st)
    ELSE IF i + 1 > Len(list)
    THEN Ret(Err("Invalid number of arguments", list[1].name), st)
    ELSE LET val == eval_obj(list[i + 1], current_env, st, d)
         IN  IF val.r.k # "Ok" THEN val
             ELSE bind_params_checks_arity(params, i + 1, list, current_env,
                      new_env,
                      [val.st EXCEPT !.frames =
                          Env_set(@, new_env, params[i], val.r.v)], d)

\* the loop binding each parameter to its argument, evaluated in current_env
bind_params(params, i, list, current_env, new_env, st, d) ==
    IF i > Len(params) THEN Ret(Ok(Void), st)
    ELSE IF i + 1 > Len(list) THEN Ret(Panic("index out of bounds"), st)
    ELSE LET val == eval_obj(list[i + 1], current_env, st, d)
         IN  IF val.r.k # "Ok" THEN val
             ELSE bind_params(params, i + 1, list, current_env, new_env,
                      [val.st EXCEPT !.frames =
                          Env_set(@, new_env, params[i], val.r.v)], d)

\* eval_application making the new frame a child of the caller's frame
eval_application_dynamic(obj, list, current_env, st, d) ==
    LET s == list[1].name
        lambda == Env_get(st.frames, current_env, s)
    IN  IF ~lambda.some THEN Ret(Err("Unbound function", s), st)
        ELSE IF lambda.val.tag # "Lambda" THEN Ret(Err("Not a lambda", s), st)
        ELSE LET func == lambda.val
                 new_env == Len(st.frames) + 1
                 st1 == [st EXCEPT
                            !.frames = Env_extend(@, current_env),
                            !.calls = Append(@, Call("apply", new_env, func.env,
                                                     current_env))]
                 b == bind_params(func.params, 1, list, current_env, new_env,
                                  st1, d)
             IN  IF b.r.k # "Ok" THEN b
                 ELSE eval_loop(obj, List(func.body), new_env, b.st, d)

\* eval_application evaluating the body in a nested invocation of eval_obj, as
\* the unused eval_function_call does
eval_application_nested(obj, list, current_env, st, d) ==
    LET s == list[1].name
        lambda == Env_get(st.frames, current_env, s)
    IN  IF ~lambda.some THEN Ret(Err("Unbound function", s), st)
        ELSE IF lambda.val.tag # "Lambda" THEN Ret(Err("Not a lambda", s), st)
        ELSE LET func == lambda.val
                 new_env == Len(st.frames) + 1
                 st1 == [st EXCEPT
                            !.frames = Env_extend(@, func.env),
                            !.calls = Append(@, Call("apply", new_env, func.env,
                                                     current_env))]
                 b == bind_params(func.params, 1, list, current_env, new_env,
                                  st1, d)
             IN  IF b.r.k # "Ok" THEN b
                 ELSE eval_obj(List(func.body), new_env, b.st, d)

\* the Symbol arm: the lambda's body becomes current_obj and the new frame
\* current_env of the same invocation
eval_application(obj, list, current_env, st, d) ==
    LET s == list[1].name
        lambda == Env_get(st.frames, current_env, s)
    IN  IF ~lambda.some THEN Ret(Err("Unbound function", s), st)
        ELSE IF lambda.val.tag # "Lambda" THEN Ret(Err("Not a lambda", s), st)
        ELSE LET func == lambda.val
                 new_env == Len(st.frames) + 1
                 st1 == [st EXCEPT
                            !.frames = Env_extend(@, func.env),
                            !.calls = Append(@, Call("apply", new_env, func.env,
                                                     current_env))]
                 b == bind_params(func.params, 1, list, current_env, new_env,
                                  st1, d)
             IN  IF b.r.k # "Ok" THEN b
                 ELSE eval_loop(obj, List(func.body), new_env, b.st, d)

\* eval_sequence keeping the Void results in the List it returns
eval_sequence_keeps_void(list, i, env, new_list, st, d) ==
    IF i > Len(list) THEN Ret(Ok(List(new_list)), st)
    ELSE LET res == eval_obj(list[i], env, st, d)
         IN  IF res.r.k # "Ok" THEN res
             ELSE eval_sequence_keeps_void(list, i + 1, env,
                      Append(new_list, res.r.v), res.st, d)

\* the implicit sequence: every element evaluated in env, Void results dropped
eval_sequence(list, i, env, new_list, st, d) ==
    IF i > Len(list) THEN Ret(Ok(List(new_list)), st)
    ELSE LET res == eval_obj(list[i], env, st, d)
         IN  IF res.r.k # "Ok" THEN res
             ELSE eval_sequence(list, i + 1, env,
                      IF res.r.v.tag = "Void" THEN new_list
                      ELSE Append(new_list, res.r.v),
                      res.st, d)

\* eval_define writing into the root frame, not the frame it is evaluated in
eval_define_root(list, env, st, d) ==
    IF Len(list) # 3
    THEN Ret(Err("Invalid number of arguments for define", ""), st)
    ELSE IF list[2].tag # "Symbol" THEN Ret(Err("Invalid define", ""), st)
    ELSE LET val == eval_obj(list[3], env, st, d)
         IN  IF val.r.k # "Ok" THEN val
             ELSE Ret(Ok(Void),
                      [val.st EXCEPT !.frames =
                          Env_set(@, 1, list[2].name, val.r.v)])

eval_define(list, env, st, d) ==
    IF Len(list) # 3
    THEN Ret(Err("Invalid number of arguments for define", ""), st)
    ELSE IF list[2].tag # "Symbol" THEN Ret(Err("Invalid define", ""), st)
    ELSE LET val == eval_obj(list[3], env, st, d)
         IN  IF val.r.k # "Ok" THEN val
             ELSE Ret(Ok(Void),
                      [val.st EXCEPT !.frames =
                          Env_set(@, env, list[2].name, val.r.v)])

\* a loop evaluating list[i..] in env and collecting every result
eval_elements(list, i, env, elms, st, d) ==
    IF i > Len(list) THEN Ret(Ok(elms), st)
    ELSE LET e == eval_obj(list[i], env, st, d)
         IN  IF e.r.k # "Ok" THEN e
             ELSE eval_elements(list, i + 1, env, Append(elms, e.r.v), e.st, d)

eval_list_data(list, env, st, d) ==
    LET e == eval_elements(list, 2, env, <<>>, st, d)
    IN  IF e.r.k # "Ok" THEN e ELSE Ret(Ok(ListData(e.r.v)), e.st)

print_list(list, env, st, d) ==
    LET e == eval_elements(list, 2, env, <<>>, st, d)
    IN  IF e.r.k # "Ok" THEN e
        ELSE Ret(Ok(Void), [e.st EXCEPT !.out = Append(@, e.r.v)])

\* eval_function_definition capturing a copy of the frame, not the frame
eval_function_definition_copies_env(list, env, st) ==
    IF Len(list) < 2 THEN Ret(Panic("index out of bounds"), st)
    ELSE IF list[2].tag # "List" THEN Ret(Err("Invalid lambda", ""), st)
    ELSE IF \E i \in 1..Len(list[2].items) : list[2].items[i].tag # "Symbol"
         THEN Ret(Err("Invalid lambda parameter", ""), st)
    ELSE IF Len(list) < 3 THEN Ret(Panic("index out of bounds"), st)
    ELSE IF list[3].tag # "List" THEN Ret(Err("Invalid lambda", ""), st)
    ELSE Ret(Ok(Lambda([i \in 1..Len(list[2].items) |-> list[2].items[i].name],
                       list[3].items, Len(st.frames) + 1)),
             [st EXCEPT !.frames = Append(@, @[env])])

eval_function_definition(list, env, st) ==
    IF Len(list) < 2 THEN Ret(Panic("index out of bounds"), st)
    ELSE IF list[2].tag # "List" THEN Ret(Err("Invalid lambda", ""), st)
    ELSE IF \E i \in 1..Len(list[2].items) : list[2].items[i].tag # "Symbol"
         THEN Ret(Err("Invalid lambda parameter", ""), st)
    ELSE IF Len(list) < 3 THEN Ret(Panic("index out of bounds"), st)
    ELSE IF list[3].tag # "List" THEN Ret(Err("Invalid lambda", ""), st)
    ELSE Ret(Ok(Lambda([i \in 1..Len(list[2].items) |-> list[2].items[i].name],
                       list[3].items, env)), st)

\* the loop of eval_map over the items of the collection
map_items(lambda, items, i, env, result_list, st, d) ==
    IF i > Len(items) THEN Ret(Ok(ListData(result_list)), st)
    ELSE LET val == eval_obj(items[i], env, st, d)
         IN  IF val.r.k # "Ok" THEN val
             ELSE LET new_env == Len(val.st.frames) + 1
                      st1 == [val.st EXCEPT
                                 !.frames = Env_set(Env_extend(@, lambda.env),
                                                new_env, lambda.params[1], val.r.v),
                                 !.calls = Append(@, Call("map", new_env,
                                                          lambda.env, env))]
                      res == eval_obj(List(lambda.body), new_env, st1, d)
                  IN  IF res.r.k # "Ok" THEN res
                      ELSE map_items(lambda, items, i + 1, env,
                                     Append(result_list, res.r.v), res.st, d)

eval_map(list, env, st, d) ==
    IF Len(list) # 3 THEN Ret(Err("Invalid arity for map function", ""), st)
    ELSE LET lambda == eval_obj(list[2], env, st, d)
         IN  IF lambda.r.k # "Ok" THEN lambda
             ELSE LET coll == eval_obj(list[3], env, lambda.st, d)
                  IN  IF coll.r.k # "Ok" THEN coll
                      ELSE IF lambda.r.v.tag # "Lambda"
                           THEN Ret(Err("Not a lambda while evaluating map", ""),
                                    coll.st)
                      ELSE IF Len(lambda.r.v.params) # 1
                           THEN Ret(Err("Invalid number of parameters for map lambda function", ""),
                                    coll.st)
                      ELSE IF coll.r.v.tag # "ListData"
                           THEN Ret(Err("Invalid map arguments", ""), coll.st)
                      ELSE map_items(lambda.r.v, coll.r.v.elems, 1, env, <<>>,
                                     coll.st, d)

\* the loop of eval_filter over the items of the collection
filter_items(lambda, items, i, env, result_list, st, d) ==
    IF i > Len(items) THEN Ret(Ok(ListData(result_list)), st)
    ELSE LET val == eval_obj(items[i], env, st, d)
         IN  IF val.r.k # "Ok" THEN val
             ELSE LET new_env == Len(val.st.frames) + 1
                      st1 == [val.st EXCEPT
                                 !.frames = Env_set(Env_extend(@, lambda.env),
                                                new_env, lambda.params[1], val.r.v),
                                 !.calls = Append(@, Call("filter", new_env,
                                                          lambda.env, env))]
                      res == eval_obj(List(lambda.body), new_env, st1, d)
                  IN  IF res.r.k # "Ok" THEN res
                      ELSE filter_items(lambda, items, i + 1, env,
                               IF res.r.v.tag = "Bool" /\ res.r.v.b
                               THEN Append(result_list, val.r.v)
                               ELSE result_list,
                               res.st, d)

eval_filter(list, env, st, d) ==
    IF Len(list) # 3 THEN Ret(Err("Invalid arity for filter function", ""), st)
    ELSE LET lambda == eval_obj(list[2], env, st, d)
         IN  IF lambda.r.k # "Ok" THEN lambda
             ELSE LET coll == eval_obj(list[3], env, lambda.st, d)
                  IN  IF coll.r.k # "Ok" THEN coll
                      ELSE IF lambda.r.v.tag # "Lambda"
                           THEN Ret(Err("Not a lambda while evaluating filter", ""),
                                    coll.st)
                      ELSE IF Len(lambda.r.v.params) # 1
                           THEN Ret(Err("Invalid number of parameters for filter lambda function", ""),
                                    coll.st)
                      ELSE IF coll.r.v.tag # "ListData"
                           THEN Ret(Err("Invalid filter arguments", ""), coll.st)
                      ELSE filter_items(lambda.r.v, coll.r.v.elems, 1, env, <<>>,
                                        coll.st, d)

\* the loop of eval_reduce over the items of the collection; a is the accumulator
reduce_items(lambda, items, i, env, a, st, d) ==
    IF i > Len(items) THEN Ret(Ok(a), st)
    ELSE LET b == eval_obj(items[i], env, st, d)
         IN  IF b.r.k # "Ok" THEN b
             ELSE LET new_env == Len(b.st.frames) + 1
                      st1 == [b.st EXCEPT
                                 !.frames = Env_set(
                                     Env_set(Env_extend(@, lambda.env),
                                             new_env, lambda.params[1], a),
                                     new_env, lambda.params[2], b.r.v),
                                 !.calls = Append(@, Call("reduce", new_env,
                                                          lambda.env, env))]
                      res == eval_obj(List(lambda.body), new_env, st1, d)
                  IN  IF res.r.k # "Ok" THEN res
                      ELSE reduce_items(lambda, items, i + 1, env, res.r.v,
                                        res.st, d)

eval_reduce(list, env, st, d) ==
    IF Len(list) # 4 THEN Ret(Err("Invalid arity for reduce function", ""), st)
    ELSE LET lambda == eval_obj(list[2], env, st, d)
         IN  IF lambda.r.k # "Ok" THEN lambda
             ELSE LET coll == eval_obj(list[4], env, lambda.st, d)
                  IN  IF coll.r.k # "Ok" THEN coll
                      ELSE IF lambda.r.v.tag # "Lambda"
                           THEN Ret(Err("Not a lambda whle evaluating reduce", ""),
                                    coll.st)
                      ELSE IF Len(lambda.r.v.params) # 2
                           THEN Ret(Err("Invalid number of parameters for reduce lambda function", ""),
                                    coll.st)
                      ELSE IF coll.r.v.tag # "ListData"
                           THEN Ret(Err("Invalid reduce argumetns", ""), coll.st)
                      ELSE LET a == eval_obj(list[3], env, coll.st, d)
                           IN  IF a.r.k # "Ok" THEN a
                               ELSE reduce_items(lambda.r.v, coll.r.v.elems, 1,
                                                 env, a.r.v, a.st, d)

eval_keyword(list, env, st, d) ==
    IF list[1].tag # "Keyword" THEN Ret(Err("Invalid keyword", ""), st)
    ELSE CASE list[1].kw = "define" -> eval_define(list, env, st, d)
           [] list[1].kw = "list" -> eval_list_data(list, env, st, d)
           [] list[1].kw = "print" -> print_list(list, env, st, d)
           [] list[1].kw = "lambda" -> eval_function_definition(list, env, st)
           [] list[1].kw = "map" -> eval_map(list, env, st, d)
           [] list[1].kw = "filter" -> eval_filter(list, env, st, d)
           [] list[1].kw = "reduce" -> eval_reduce(list, env, st, d)
           [] OTHER -> Ret(Err("Invalid keyword", list[1].kw), st)

\* what parse(program) returns: the root form of the program, or an error,
\* here the text it displays
ParseOk(root) == [ok |-> TRUE, root |-> root]

ParseError(err) == [ok |-> FALSE, err |-> err]

\* eval(program, env), parsed_list being what parse(program) returned: an
\* error of the parser is returned before anything is evaluated, and the
\* root form is evaluated in the environment the caller passes
eval(parsed_list, env, st) ==
    IF ~parsed_list.ok THEN Ret(Err(parsed_list.err, ""), st)
    ELSE eval_obj(parsed_list.root, env, st, 0)

(***************************************************************************)
(* The lexer (lexer.rs).  A text is a sequence of character codes; a token *)
(* that carries a word carries its character codes, an Integer token the   *)
(* value of its word and a Float token the f64 its word parses to.         *)
(***************************************************************************)
RECURSIVE DigitsValue(_)
RECURSIVE ExponentValue(_, _)
RECURSIVE read_string(_, _)
RECURSIVE read_word(_, _, _)
RECURSIVE tokenize_loop(_, _)

\* Token::Integer(n), n being the Integer object of the i64
Token_Integer(n) == [tok |-> "Integer", n |-> n]

Token_Float(f) == [tok |-> "Float", f |-> f]

Token_Symbol(s) == [tok |-> "Symbol", s |-> s]

Token_Keyword(s) == [tok |-> "Keyword", s |-> s]

Token_If == [tok |-> "If"]

Token_BinaryOp(s) == [tok |-> "BinaryOp", s |-> s]

Token_String(s) == [tok |-> "String", s |-> s]

Token_LParen == [tok |-> "LParen"]

Token_RParen == [tok |-> "RParen"]

TokenError(err, word) == [k |-> "TokenError", err |-> err, word |-> word]

LParenChar == 40

RParenChar == 41

QuoteChar == 34

PlusChar == 43

MinusChar == 45

PointChar == 46

\* char::is_whitespace: the code points of the Unicode property White_Space
WhitespaceChars ==
    (9..13) \cup {32, 133, 160, 5760} \cup (8192..8202)
    \cup {8232, 8233, 8239, 8287, 12288}

DigitChars == 48..57

is_whitespace(ch) == ch \in WhitespaceChars

KeywordWords ==
    {<<100, 101, 102, 105, 110, 101>>,
     <<108, 105, 115, 116>>,
     <<112, 114, 105, 110, 116>>,
     <<108, 97, 109, 98, 100, 97>>,
     <<109, 97, 112>>,
     <<102, 105, 108, 116, 101, 114>>,
     <<114, 101, 100, 117, 99, 101>>}

BinaryOpWords ==
    {<<43>>, <<45>>, <<42>>, <<47>>, <<37>>, <<60>>, <<62>>, <<61>>, <<33, 61>>, <<38>>, <<124>>}

IfWord == <<105, 102>>

\* the value of the decimal digits w
DigitsValue(w) ==
    IF Len(w) = 0 THEN <<>>
    ELSE IF Len(w) = 1 THEN BFromNat(w[1] - 48)
    ELSE BAdd(BMul(DigitsValue(SubSeq(w, 1, Len(w) \div 2)),
                   BPow10(Len(w) - (Len(w) \div 2))),
              DigitsValue(SubSeq(w, (Len(w) \div 2) + 1, Len(w))))

\* the value of the digits of an exponent, or a value past every exponent
\* that matters when there are many digits
ExponentValue(w, acc) ==
    IF w = <<>> \/ acc > 100000 THEN acc
    ELSE ExponentValue(Tail(w), 10 * acc + (Head(w) - 48))

HasSign(word) == Len(word) > 0 /\ word[1] \in {PlusChar, MinusChar}

IsNegative(word) == Len(word) > 0 /\ word[1] = MinusChar

Unsigned(word) == IF HasSign(word) THEN Tail(word) ELSE word

AllDigits(w) == \A i \in 1..Len(w) : w[i] \in DigitChars

\* the i64 of the magnitude mag and the sign, when it is in -2^63 .. 2^63 - 1
I64Of(neg, mag) ==
    IF BCmp(mag, BShl(<<1>>, 63)) < (IF neg THEN 1 ELSE 0)
    THEN [ok |-> TRUE, v |-> I64(neg, mag)]
    ELSE [ok |-> FALSE]

ParseDigits(neg, w) ==
    IF w # <<>> /\ AllDigits(w) THEN I64Of(neg, DigitsValue(w))
    ELSE [ok |-> FALSE]

\* word.parse::<i64>(): an optional sign, then one digit or more, the value
\* in -2^63 .. 2^63 - 1
parse_i64(word) == ParseDigits(IsNegative(word), Unsigned(word))

ToLower(w) == [i \in 1..Len(w) |-> IF w[i] \in 65..90 THEN w[i] + 32 ELSE w[i]]

\* "inf" and "infinity"
InfWords == {<<105, 110, 102>>, <<105, 110, 102, 105, 110, 105, 116, 121>>}

\* "nan"
NanWord == <<110, 97, 110>>

\* e and E
ExpChars == {101, 69}

\* the f64 nearest to digs * 10^x, digs being the value of n digits
FromDecimal(neg, digs, n, x) ==
    IF digs = <<>> THEN FZero(neg)
    ELSE IF x > 400 THEN FInf(neg)
    ELSE IF n + x < -400 THEN FZero(neg)
    ELSE FRound(neg, BMul(digs, BPow10(Max(x, 0))), BPow10(Max(-x, 0)), 0)

\* digits with at most one point among them
IsMantissa(mant) ==
    /\ \E i \in 1..Len(mant) : mant[i] \in DigitChars
    /\ \A i \in 1..Len(mant) : mant[i] \in DigitChars \cup {PointChar}
    /\ Cardinality({i \in 1..Len(mant) : mant[i] = PointChar}) <= 1

Digits(mant) == SelectSeq(mant, LAMBDA c : c \in DigitChars)

\* the number of digits after the point at place p, p = 0 for no point
FracFrom(mant, p) == IF p = 0 THEN 0 ELSE Len(mant) - p

FracLen(mant) ==
    FracFrom(mant, Highest({i \in 1..Len(mant) : mant[i] = PointChar}))

\* an optional sign, then one digit or more
IsExponent(expo) == Unsigned(expo) # <<>> /\ AllDigits(Unsigned(expo))

Exponent(expo) ==
    IF IsNegative(expo) THEN -ExponentValue(Unsigned(expo), 0)
    ELSE ExponentValue(Unsigned(expo), 0)

\* the number mant, times 10 to the power expo when there is an exponent
ParseNumber(neg, mant, hasexp, expo) ==
    IF IsMantissa(mant) /\ (hasexp => IsExponent(expo))
    THEN [ok |-> TRUE,
          v |-> FromDecimal(neg, DigitsValue(Digits(mant)), Len(Digits(mant)),
                            (IF hasexp THEN Exponent(expo) ELSE 0)
                                - FracLen(mant))]
    ELSE [ok |-> FALSE]

\* the place of the first e or E of w, or Len(w) + 1 when it has none
ExpPos(w) ==
    CHOOSE i \in 1..(Len(w) + 1) :
        /\ i = Len(w) + 1 \/ w[i] \in ExpChars
        /\ \A j \in 1..(i - 1) : w[j] \notin ExpChars

SplitAt(neg, w, epos) ==
    ParseNumber(neg, SubSeq(w, 1, epos - 1), epos <= Len(w),
                SubSeq(w, epos + 1, Len(w)))

ParseUnsigned(neg, w) ==
    IF ToLower(w) \in InfWords THEN [ok |-> TRUE, v |-> FInf(neg)]
    ELSE IF ToLower(w) = NanWord THEN [ok |-> TRUE, v |-> FNaN]
    ELSE SplitAt(neg, w, ExpPos(w))

\* word.parse::<f64>(): an optional sign, then inf, infinity or nan in any
\* case, or digits with at most one point and one digit at least, then an
\* optional exponent (e or E, an optional sign, one digit or more); the value
\* is the f64 nearest to the decimal number
parse_f64(word) == ParseUnsigned(IsNegative(word), Unsigned(word))

\* the token pushed for a word that is not empty
classify(word) ==
    IF parse_i64(word).ok THEN Token_Integer(parse_i64(word).v)
    ELSE IF parse_f64(word).ok THEN Token_Float(parse_f64(word).v)
    ELSE IF word \in KeywordWords THEN Token_Keyword(word)
    ELSE IF word \in BinaryOpWords THEN Token_BinaryOp(word)
    ELSE IF word = IfWord THEN Token_If
    ELSE Token_Symbol(word)

\* the loop of the '"' arm: the characters up to the next '"' are removed
read_string(chars, word) ==
    IF Len(chars) > 0 /\ chars[1] # QuoteChar
    THEN read_string(Tail(chars), Append(word, chars[1]))
    ELSE [word |-> word, chars |-> chars]

\* the loop of the default arm, ch being the character removed last
read_word(ch, chars, word) ==
    IF Len(chars) > 0 /\ ~is_whitespace(ch) /\ ch # LParenChar /\ ch # RParenChar
    THEN LET peek == chars[1]
         IN  IF peek = LParenChar \/ peek = RParenChar
             THEN [word |-> Append(word, ch), chars |-> chars]
             ELSE read_word(peek, Tail(chars), Append(word, ch))
    ELSE [word |-> word, chars |-> chars]

\* the while loop of tokenize on the characters left and the tokens pushed
tokenize_loop(chars, tokens) ==
    IF Len(chars) = 0 THEN Ok(tokens)
    ELSE LET ch == Head(chars)
             rest == Tail(chars)
         IN  IF ch = LParenChar
             THEN tokenize_loop(rest, Append(tokens, Token_LParen))
             ELSE IF ch = RParenChar
             THEN tokenize_loop(rest, Append(tokens, Token_RParen))
             ELSE IF ch = QuoteChar
             THEN LET s == read_string(rest, <<>>)
                  IN  IF Len(s.chars) > 0 /\ s.chars[1] = QuoteChar
                      THEN tokenize_loop(Tail(s.chars),
                                         Append(tokens, Token_String(s.word)))
                      ELSE TokenError("Unterminated string", s.word)
             ELSE LET w == read_word(ch, rest, <<>>)
                  IN  IF w.word = <<>> THEN tokenize_loop(w.chars, tokens)
                      ELSE tokenize_loop(w.chars,
                                         Append(tokens, classify(w.word)))

tokenize(text) == tokenize_loop(text, <<>>)

(***************************************************************************)
(* The parser (parser.rs is not among the sources): the tokens of the      *)
(* program must make one root form, a parenthesised list whose items are   *)
(* atoms and nested lists; an error of the lexer, a program that does not  *)
(* open with a parenthesis, a list left open and tokens after the root     *)
(* form are errors.  The evaluator names symbols, keywords and operators   *)
(* by strings, so the characters of a word are turned into its string.     *)
(***************************************************************************)
RECURSIVE StringOf(_)
RECURSIVE parse_list(_, _)

\* the printable characters of ASCII, from the space (32) to the tilde (126);
\* the backslash (92), the backquote (96) and every character outside the
\* table, which no string of the model holds, are written as a question mark
Ascii ==
    <<" ", "!", "\"", "#", "$", "%", "&", "'", "(", ")", "*", "+",
      ",", "-", ".", "/", "0", "1", "2", "3", "4", "5", "6", "7",
      "8", "9", ":", ";", "<", "=", ">", "?", "@", "A", "B", "C",
      "D", "E", "F", "G", "H", "I", "J", "K", "L", "M", "N", "O",
      "P", "Q", "R", "S", "T", "U", "V", "W", "X", "Y", "Z", "[",
      "?", "]", "^", "_", "?", "a", "b", "c", "d", "e", "f", "g",
      "h", "i", "j", "k", "l", "m", "n", "o", "p", "q", "r", "s",
      "t", "u", "v", "w", "x", "y", "z", "{", "|", "}", "~">>

CharOf(c) == IF c \in 32..126 THEN Ascii[c - 31] ELSE "?"

StringOf(word) ==
    IF word = <<>> THEN "" ELSE CharOf(Head(word)) \o StringOf(Tail(word))

\* the object of a token that is no parenthesis
ObjectOf(token) ==
    CASE token.tok = "Integer" -> token.n
      [] token.tok = "Float" -> Float(token.f)
      [] token.tok = "String" -> String(token.s)
      [] token.tok = "Symbol" -> Symbol(StringOf(token.s))
      [] token.tok = "Keyword" -> Keyword(StringOf(token.s))
      [] token.tok = "BinaryOp" -> BinaryOp(StringOf(token.s))
      [] token.tok = "If" -> If

\* the list whose opening parenthesis was read, items being its items so far
parse_list(tokens, items) ==
    IF tokens = <<>> THEN [ok |-> FALSE]
    ELSE IF Head(tokens).tok = "RParen"
    THEN [ok |-> TRUE, root |-> List(items), rest |-> Tail(tokens)]
    ELSE IF Head(tokens).tok = "LParen"
    THEN LET sub == parse_list(Tail(tokens), <<>>)
         IN  IF ~sub.ok THEN sub
             ELSE parse_list(sub.rest, Append(items, sub.root))
    ELSE parse_list(Tail(tokens), Append(items, ObjectOf(Head(tokens))))

ParseTokens(tokens) ==
    IF tokens = <<>> \/ Head(tokens).tok # "LParen" THEN ParseError("parse error")
    ELSE LET p == parse_list(Tail(tokens), <<>>)
         IN  IF ~p.ok \/ p.rest # <<>> THEN ParseError("parse error")
             ELSE ParseOk(p.root)

\* parse(program)
parse(text) ==
    IF tokenize(text).k # "Ok" THEN ParseError("parse error")
    ELSE ParseTokens(tokenize(text).v)

(***************************************************************************)
(* The forms the parser yields for the program texts that are run.         *)
(***************************************************************************)
Define(name, expr) == List(<<Keyword("define"), Symbol(name), expr>>)

LambdaForm(params, body) ==
    List(<<Keyword("lambda"),
           List([i \in 1..Len(params) |-> Symbol(params[i])]), body>>)

Bin(op, a, b) == List(<<BinaryOp(op), a, b>>)

Apply(name, args) == List(<<Symbol(name)>> \o args)

IfForm(c, t, e) == List(<<If, c, t, e>>)

ListForm(elems) == List(<<Keyword("list")>> \o elems)

\* all sequences over S of length 0..n
SeqsUpTo(S, n) == UNION {[1..m -> S] : m \in 0..n}

(***************************************************************************)
(* Bounds of the input families.                                           *)
(***************************************************************************)
MaxOperand == 2

MaxSeqLen == 3

MaxVal == 1

MaxN == 4

MaxFact == 5

MaxScopeVal == 2

MaxColl == 2

MaxElem == 2

(***************************************************************************)
(* (op left right): one binary operator applied to two operand forms.      *)
(***************************************************************************)
Operators == {"+", "-", "*", "/", "%", "<", ">", "=", "!=", "&", "|"}

Operands ==
    {Integer(n) : n \in -1..MaxOperand}
    \cup {Float(F64(2, 1)), Float(F64(1, 2)), Float(F64(0, 1))}
    \cup {String(<<97>>), String(<<98>>)}
    \cup {Symbol("true"), Symbol("false"), Symbol("nil")}
    \cup {ListForm(<<Integer(1)>>)}

BinaryOpProgram(op, l, r) == Bin(op, l, r)

(***************************************************************************)
(* ( e1 ... en ): an implicit sequence of defines and expressions, among   *)
(* them the elements of test_area_of_a_circle.                             *)
(***************************************************************************)
TestR == 10

TestPi == 314

Area == Bin("*", Symbol("pi"), Bin("*", Symbol("r"), Symbol("r")))

SeqHeads ==
    {Define("r", Integer(k)) : k \in {TestR} \cup 1..MaxVal}
    \cup {Define("pi", Integer(TestPi))}
    \cup {Area, Integer(7)}

SeqElems == SeqHeads \cup {Symbol("r"), Symbol("nil")}

SequenceProgram(elems) == List(elems)

(***************************************************************************)
(* The programs of test_closure, test_sum_n and test_factorial, with the   *)
(* arguments of the call as parameters.                                    *)
(***************************************************************************)
ClosureProgram(x, y) ==
    List(<<Define("add", LambdaForm(<<"a">>,
                LambdaForm(<<"b">>, Bin("+", Symbol("a"), Symbol("b"))))),
           Apply("add", <<Integer(x), Integer(y)>>)>>)

SumNProgram(n) ==
    List(<<Define("sum-n", LambdaForm(<<"n", "a">>,
                IfForm(Bin("=", Symbol("n"), Integer(0)),
                       Symbol("a"),
                       Apply("sum-n", <<Bin("-", Symbol("n"), Integer(1)),
                                        Bin("+", Symbol("n"), Symbol("a"))>>)))),
           Apply("sum-n", <<Integer(n), Integer(0)>>)>>)

FactProgram(n) ==
    List(<<Define("fact", LambdaForm(<<"n">>,
                IfForm(Bin("<", Symbol("n"), Integer(1)),
                       Integer(1),
                       Bin("*", Symbol("n"),
                           Apply("fact", <<Bin("-", Symbol("n"), Integer(1))>>))))),
           Apply("fact", <<Integer(n)>>)>>)

(***************************************************************************)
(* Programs in which a lambda is invoked from a frame that binds x to      *)
(* another value than the frame the lambda captured: caller binds x as its *)
(* parameter and invokes, by direct application or through map, filter or  *)
(* reduce, a lambda whose body reads x.                                    *)
(***************************************************************************)
Vias == {"apply", "map", "filter", "reduce", "closure"}

ScopeBody(via, x0, x1) ==
    CASE via = "apply" -> Apply("getx", <<Integer(0)>>)
      [] via = "map" ->
            List(<<Keyword("map"), Symbol("getx"), ListForm(<<Integer(0)>>)>>)
      [] via = "filter" ->
            List(<<Keyword("filter"), Symbol("isx"),
                   ListForm(<<Integer(x0), Integer(x1)>>)>>)
      [] via = "reduce" ->
            List(<<Keyword("reduce"), Symbol("addx"), Integer(0),
                   ListForm(<<Integer(1)>>)>>)
      [] via = "closure" -> Apply("add1", <<Integer(0)>>)

\* x0 is the value of x where the lambda is defined, x1 the one the caller binds
ScopeProgram(via, x0, x1) ==
    List(<<Define("x", Integer(IF via = "closure" THEN x1 ELSE x0)),
           Define("getx", LambdaForm(<<"y">>, Bin("+", Symbol("x"), Symbol("y")))),
           Define("isx", LambdaForm(<<"y">>, Bin("=", Symbol("x"), Symbol("y")))),
           Define("addx", LambdaForm(<<"a", "y">>, Bin("+", Symbol("a"), Symbol("x")))),
           Define("mk", LambdaForm(<<"x">>,
                LambdaForm(<<"y">>, Bin("+", Symbol("x"), Symbol("y"))))),
           Define("add1", Apply("mk", <<Integer(x0)>>)),
           Define("caller", LambdaForm(<<"x">>, ScopeBody(via, x0, x1))),
           Apply("caller", <<Integer(x1)>>)>>)

(***************************************************************************)
(* The programs of test_map and test_reduce, and the same for filter: a    *)
(* lambda and a collection are defined, then the combinator is applied.    *)
(* The elements of the collection are integer literals and two forms that  *)
(* evaluate to List values.                                                *)
(***************************************************************************)
\* ((define y 1)) evaluates to the empty List, (1 2) to the List of 1 and 2
EmptySeqForm == List(<<Define("y", Integer(1))>>)

PairSeqForm == List(<<Integer(1), Integer(2)>>)

ElemForms == {Integer(k) : k \in 1..MaxElem} \cup {EmptySeqForm, PairSeqForm}

MapLambdas == {"sqr", "wrap"}

FilterLambdas == {"even", "big", "always", "nonbool"}

ReduceLambdas == {"add", "sub", "pair"}

LambdaNamed(f) ==
    CASE f = "sqr" -> LambdaForm(<<"r">>, Bin("*", Symbol("r"), Symbol("r")))
      [] f = "wrap" -> LambdaForm(<<"x">>, ListForm(<<Symbol("x")>>))
      [] f = "even" ->
            LambdaForm(<<"x">>, Bin("=", Bin("%", Symbol("x"), Integer(2)),
                                    Integer(0)))
      [] f = "big" -> LambdaForm(<<"x">>, Bin(">", Symbol("x"), Integer(1)))
      [] f = "always" -> LambdaForm(<<"x">>, Bin("=", Integer(1), Integer(1)))
      [] f = "nonbool" -> LambdaForm(<<"x">>, ListForm(<<Symbol("x")>>))
      [] f = "add" -> LambdaForm(<<"a", "b">>, Bin("+", Symbol("a"), Symbol("b")))
      [] f = "sub" -> LambdaForm(<<"a", "b">>, Bin("-", Symbol("a"), Symbol("b")))
      [] f = "pair" ->
            LambdaForm(<<"a", "b">>, ListForm(<<Symbol("a"), Symbol("b")>>))

MapProgram(f, elems) ==
    List(<<Define("f", LambdaNamed(f)),
           Define("coll", ListForm(elems)),
           List(<<Keyword("map"), Symbol("f"), Symbol("coll")>>)>>)

FilterProgram(f, elems) ==
    List(<<Define("f", LambdaNamed(f)),
           Define("coll", ListForm(elems)),
           List(<<Keyword("filter"), Symbol("f"), Symbol("coll")>>)>>)

ReduceProgram(f, init, elems) ==
    List(<<Define("f", LambdaNamed(f)),
           Define("coll", ListForm(elems)),
           List(<<Keyword("reduce"), Symbol("f"), Integer(init), Symbol("coll")>>)>>)

(***************************************************************************)
(* (if operand ...): an if form with 0..MaxIfOperands operands.  The first *)
(* operand is the condition; the others write a binding and print, so that *)
(* the frames and the output show which operands were evaluated.           *)
(***************************************************************************)
PrintForm(e) == List(<<Keyword("print"), e>>)

MaxIfOperands == 4

TrueConds == {Symbol("true"), Bin("=", Integer(1), Integer(1)),
              Bin("<", Integer(1), Integer(2))}

FalseConds == {Symbol("false"), Bin("=", Integer(1), Integer(2)),
               Bin(">", Integer(1), Integer(2))}

\* conditions that yield no Bool: other values, Void (with and without an
\* effect of their own) and an error
NonBoolConds ==
    {Symbol("nil"), Integer(0), Integer(1), Float(F64(1, 2)), String(<<97>>),
     ListForm(<<Symbol("true")>>), Bin("+", Integer(1), Integer(1)),
     LambdaForm(<<"x">>, List(<<Symbol("x")>>)),
     PrintForm(Integer(9)), Define("c", Symbol("true")), Symbol("u")}

IfConds == TrueConds \cup FalseConds \cup NonBoolConds

ThenBranch == List(<<Define("t", Integer(1)), PrintForm(Integer(1))>>)

ElseBranch == List(<<Define("e", Integer(2)), PrintForm(Integer(2))>>)

IfOperand(cond, i) ==
    IF i = 1 THEN cond
    ELSE IF i = 2 THEN ThenBranch
    ELSE IF i = 3 THEN ElseBranch
    ELSE PrintForm(Integer(i))

IfProgram(cond, nops) == List(<<If>> \o [i \in 1..nops |-> IfOperand(cond, i)])

(***************************************************************************)
(* Programs that reference one name, which the root frame binds before the *)
(* reference, after it or never.  The reference is an expression of the    *)
(* root sequence, the head of an application, an expression in the body of *)
(* a lambda f defined before the name is, or the same with f called from a *)
(* lambda whose own frame binds the name.                                  *)
(***************************************************************************)
ReservedNames == {"true", "false", "nil"}

RefNames == ReservedNames \cup {"u"}

RefPositions == {"expr", "head", "body", "callee"}

RefTimes == {"before", "after", "never"}

RefDef(pos, name) ==
    IF pos = "head"
    THEN Define(name, LambdaForm(<<"x">>, Bin("+", Symbol("x"), Integer(1))))
    ELSE Define(name, Integer(5))

RefUse(pos, name) ==
    CASE pos = "expr" -> ListForm(<<Symbol(name)>>)
      [] pos = "head" -> Apply(name, <<Integer(1)>>)
      [] pos = "body" -> Apply("f", <<Integer(1)>>)
      [] pos = "callee" -> Apply("caller", <<Integer(7)>>)

RefProgram(pos, name, when) ==
    List(<<Define("f", LambdaForm(<<"a">>, ListForm(<<Symbol(name)>>))),
           Define("caller", LambdaForm(<<name>>, Apply("f", <<Integer(1)>>)))>>
         \o (IF when = "before" THEN <<RefDef(pos, name)>> ELSE <<>>)
         \o <<RefUse(pos, name)>>
         \o (IF when = "after" THEN <<RefDef(pos, name)>> ELSE <<>>))

(***************************************************************************)
(* Programs that evaluate one define form in the call frame of a lambda f  *)
(* of parameter a, called with x1.  The root frame binds x to x0 or does   *)
(* not bind it; the body of f is ((list <define form>) x) and the program  *)
(* ends with a read of x in the root frame.                                *)
(***************************************************************************)
DefineShapes == {"set", "read", "none", "one", "three", "int", "str", "list"}

DefineForm(shape) ==
    CASE shape = "set" -> Define("x", Symbol("a"))
      [] shape = "read" -> Define("x", Bin("+", Symbol("x"), Symbol("a")))
      [] shape = "none" -> List(<<Keyword("define")>>)
      [] shape = "one" -> List(<<Keyword("define"), Symbol("x")>>)
      [] shape = "three" ->
            List(<<Keyword("define"), Symbol("x"), PrintForm(Integer(9)),
                   PrintForm(Integer(8))>>)
      [] shape = "int" ->
            List(<<Keyword("define"), Integer(5), PrintForm(Integer(9))>>)
      [] shape = "str" ->
            List(<<Keyword("define"), String(<<120>>), PrintForm(Integer(9))>>)
      [] shape = "list" ->
            List(<<Keyword("define"), List(<<Symbol("x")>>),
                   PrintForm(Integer(9))>>)

DefineProgram(shape, outer, x0, x1) ==
    List((IF outer THEN <<Define("x", Integer(x0))>> ELSE <<>>)
         \o <<Define("f", LambdaForm(<<"a">>,
                  List(<<ListForm(<<DefineForm(shape)>>), Symbol("x")>>))),
              Apply("f", <<Integer(x1)>>),
              Symbol("x")>>)

(***************************************************************************)
(* The texts that are lexed: every text of up to MaxText characters over a *)
(* parenthesis pair, the double quote, the space and four word characters, *)
(* every concatenation of up to MaxLexemes lexemes, and the texts of the   *)
(* lexer's tests.                                                          *)
(***************************************************************************)
RECURSIVE Concat(_)

MaxText == 4

MaxLexemes == 3

\* ( ) " space 1 a + .
LexChars == {LParenChar, RParenChar, QuoteChar, 32, 49, 97, PlusChar, PointChar}

\* ( space no-break-space define if != inf 1e1
Lexicon ==
    {<<LParenChar>>, <<32>>, <<160>>, <<100, 101, 102, 105, 110, 101>>,
     IfWord, <<33, 61>>, <<105, 110, 102>>, <<49, 101, 49>>}

Concat(ws) == IF ws = <<>> THEN <<>> ELSE Head(ws) \o Concat(Tail(ws))

\* "(+ 1 2)"
TestAddText == <<40, 43, 32, 49, 32, 50, 41>>

\* the program of test_area_of_a_circle, the indentation of its lines left out
TestAreaText ==
    <<10, 40, 10, 40, 100, 101, 102, 105, 110, 101, 32, 114, 32, 49, 48,
      41, 10, 40, 100, 101, 102, 105, 110, 101, 32, 112, 105, 32, 51, 49,
      52, 41, 10, 40, 42, 32, 112, 105, 32, 40, 42, 32, 114, 32, 114, 41,
      41, 10, 41, 10>>

TokenizeTexts ==
    SeqsUpTo(LexChars, MaxText)
    \cup {Concat(ws) : ws \in SeqsUpTo(Lexicon, MaxLexemes)}
    \cup {TestAddText, TestAreaText}

(***************************************************************************)
(* Programs that apply a lambda f of k parameters to m argument forms from *)
(* the body of a lambda caller, whose frame binds x to 7 while the root    *)
(* frame binds x to 0.  The i-th argument prints i and yields the List of  *)
(* x + i; f returns the ListData of its parameters.                        *)
(***************************************************************************)
MaxParams == 2

MaxArgs == 3

ParamNames == <<"p1", "p2", "p3", "p4", "p5", "p6">>

ArgForm(i) == List(<<PrintForm(Integer(i)), Bin("+", Symbol("x"), Integer(i))>>)

ArityProgram(k, m) ==
    List(<<Define("x", Integer(0)),
           Define("f", LambdaForm(SubSeq(ParamNames, 1, k),
                       ListForm([i \in 1..k |-> Symbol(ParamNames[i])]))),
           Define("caller", LambdaForm(<<"x">>,
                       Apply("f", [i \in 1..m |-> ArgForm(i)]))),
           Apply("caller", <<Integer(7)>>)>>)

(***************************************************************************)
(* Program texts.  Form(ws) is the list form of the words ws.              *)
(***************************************************************************)
Spaced(ws) ==
    Concat([i \in 1..Len(ws) |-> IF i = 1 THEN ws[i] ELSE <<32>> \o ws[i]])

Form(ws) == <<LParenChar>> \o Spaced(ws) \o <<RParenChar>>

(***************************************************************************)
(* Texts in which an atom is the current form of eval_obj.  An Integer, a  *)
(* Float and a String are written as literals: as an element of the root   *)
(* list, as the chosen branch of an if form, of an if form nested in a     *)
(* branch, and of the if form that is the body of an applied lambda.  A    *)
(* Bool, a Lambda and a ListData are values: they are current forms as the *)
(* items of a list that map evaluates again.                               *)
(***************************************************************************)
\* 1 0.5 "a"
AtomLiterals == {<<49>>, <<48, 46, 53>>, <<34, 97, 34>>}

\* true
TrueWord == <<116, 114, 117, 101>>

\* false
FalseWord == <<102, 97, 108, 115, 101>>

\* (lambda (x) (x))
LambdaText == <<40, 108, 97, 109, 98, 100, 97, 32, 40, 120, 41, 32, 40, 120, 41, 41>>

\* (list 1)
ListText == <<40, 108, 105, 115, 116, 32, 49, 41>>

AtomValues == AtomLiterals \cup {TrueWord, LambdaText, ListText}

AtomShapes == {"element", "branch", "nested", "body", "item"}

\* the if form of which a is the chosen branch and b the other
Choose(c, a, b) ==
    IF c THEN Form(<<IfWord, TrueWord, a, b>>)
    ELSE Form(<<IfWord, FalseWord, b, a>>)

\* (lambda (x) (if true x x))
IdentityText == <<40, 108, 97, 109, 98, 100, 97, 32, 40, 120, 41, 32, 40, 105, 102, 32, 116, 114, 117, 101, 32, 120, 32, 120, 41, 41>>

AtomText(shape, c, a, b) ==
    CASE shape = "element" -> Form(<<a>>)
      [] shape = "branch" -> Choose(c, a, b)
      [] shape = "nested" -> Choose(~c, Choose(c, a, b), b)
      [] shape = "body" ->
            \* ((define f (lambda () (if ...))) (f))
            Form(<<Form(<<<<100, 101, 102, 105, 110, 101>>, <<102>>,
                          Form(<<<<108, 97, 109, 98, 100, 97>>, <<40, 41>>, Choose(c, a, b)>>)>>),
                   Form(<<<<102>>>>)>>)
      [] shape = "item" ->
            \* (map (lambda (x) (if true x x)) (list a b))
            Form(<<<<109, 97, 112>>, IdentityText, Form(<<<<108, 105, 115, 116>>, a, b>>)>>)

(***************************************************************************)
(* Texts of the binary operators on integer literals at and next to the    *)
(* ends of i64; each operand is a literal and the i64 c1 * 2^63 + c0.      *)
(***************************************************************************)
WideOperands ==
    {\* -9223372036854775808
     [word |-> <<45, 57, 50, 50, 51, 51, 55, 50, 48, 51, 54, 56, 53, 52, 55, 55, 53, 56, 48, 56>>,
      c1 |-> -1, c0 |-> 0],
     \* 9223372036854775807
     [word |-> <<57, 50, 50, 51, 51, 55, 50, 48, 51, 54, 56, 53, 52, 55, 55, 53, 56, 48, 55>>,
      c1 |-> 1, c0 |-> -1],
     [word |-> <<45, 49>>, c1 |-> 0, c0 |-> -1],
     [word |-> <<48>>, c1 |-> 0, c0 |-> 0],
     [word |-> <<49>>, c1 |-> 0, c0 |-> 1],
     [word |-> <<50>>, c1 |-> 0, c0 |-> 2]}

OperatorWords ==
    {[op |-> "+", word |-> <<43>>], [op |-> "-", word |-> <<45>>],
     [op |-> "*", word |-> <<42>>], [op |-> "/", word |-> <<47>>],
     [op |-> "%", word |-> <<37>>], [op |-> "<", word |-> <<60>>],
     [op |-> ">", word |-> <<62>>], [op |-> "=", word |-> <<61>>],
     [op |-> "!=", word |-> <<33, 61>>], [op |-> "&", word |-> <<38>>],
     [op |-> "|", word |-> <<124>>]}

(***************************************************************************)
(* What a session of main.rs reads: the end of the input, or a line, which *)
(* is exit, a define of x or y, a sum that reads x and y, a print of x, a  *)
(* lambda, or one of the two halves of a define written on two lines.      *)
(***************************************************************************)
MaxLines == 3

MaxLineVal == 2

\* x y
ReplNames == {<<120>>, <<121>>}

\* exit
ExitLine == <<101, 120, 105, 116>>

\* (define
DefineOpen == <<LParenChar, 100, 101, 102, 105, 110, 101>>

ReplLines ==
    {DefineOpen \o <<32>> \o n \o <<32, 48 + v, RParenChar>> :
        n \in ReplNames, v \in 1..MaxLineVal}
    \cup {ExitLine,
          \* (+ x y)
          <<LParenChar, PlusChar, 32, 120, 32, 121, RParenChar>>,
          \* (print x)
          <<LParenChar, 112, 114, 105, 110, 116, 32, 120, RParenChar>>,
          \* (lambda (x) (x))
          <<LParenChar, 108, 97, 109, 98, 100, 97, 32, LParenChar, 120,
            RParenChar, 32, LParenChar, 120, RParenChar, RParenChar>>,
          \* (define x
          DefineOpen \o <<32, 120>>,
          \* 1)
          <<49, RParenChar>>}

ReplReads ==
    {[kind |-> "Input", text |-> line] : line \in ReplLines}
    \cup {[kind |-> "Eof"]}

(***************************************************************************)
(* The state machine: eval on a program in a new session, or on the lines  *)
(* of one session in turn.                                                 *)
(***************************************************************************)
Init ==
    /\ pc = "idle"
    /\ input = [family |-> "none"]
    /\ program = Void
    /\ result = [k |-> "None"]
    /\ frames = <<Env_new>>
    /\ stdout = <<>>
    /\ maxdepth = 0
    /\ calls = <<>>
    /\ current_source = <<>>
    /\ unclosed_lparen = 0
    /\ overflow_checks \in BOOLEAN
    /\ atoms = {}

\* the root environment of the session, the lines printed so far, and the
\* measures of one call of eval
Session ==
    [frames |-> frames, out |-> stdout, maxd |-> 0, calls |-> <<>>,
     overflow_checks |-> overflow_checks, atoms |-> {}]

\* eval(program, &mut env) on what parse returns for the program, env being
\* the root environment of the session
Eval(inp, parsed_list, next) ==
    LET e == eval(parsed_list, 1, Session)
    IN  /\ pc' = next
        /\ input' = inp
        /\ program' = IF parsed_list.ok THEN parsed_list.root ELSE Void
        /\ result' = e.r
        /\ frames' = e.st.frames
        /\ stdout' = e.st.out
        /\ maxdepth' = e.st.maxd
        /\ calls' = e.st.calls
        /\ atoms' = e.st.atoms

\* one run of eval in a new session: what is recorded as its input, and what
\* parse returns for its program
Program(inp, root) == [inp |-> inp, parsed_list |-> ParseOk(root)]

ProgramText(inp, text) == [inp |-> inp, parsed_list |-> parse(text)]

BinaryOpRuns ==
    {Program([family |-> "binop", op |-> op, left |-> l, right |-> r],
             BinaryOpProgram(op, l, r)) :
        op \in Operators, l \in Operands, r \in Operands}

SequenceRuns ==
    {Program([family |-> "sequence", elems |-> <<h>> \o t],
             SequenceProgram(<<h>> \o t)) :
        h \in SeqHeads, t \in SeqsUpTo(SeqElems, MaxSeqLen - 1)}

ClosureRuns ==
    {Program([family |-> "closure", x |-> x, y |-> y], ClosureProgram(x, y)) :
        x \in 0..MaxVal, y \in 0..MaxVal}

SumNRuns ==
    {Program([family |-> "sum_n", n |-> n], SumNProgram(n)) : n \in 0..MaxN}

FactRuns ==
    {Program([family |-> "fact", n |-> n], FactProgram(n)) : n \in 0..MaxFact}

\* two values that differ
ValuePairs ==
    {v \in (1..MaxScopeVal) \X (1..MaxScopeVal) : v[1] # v[2]}

ScopeRuns ==
    {Program([family |-> "scope", via |-> via, x0 |-> v[1], x1 |-> v[2]],
             ScopeProgram(via, v[1], v[2])) :
        via \in Vias, v \in ValuePairs}

MapRuns ==
    {Program([family |-> "map", f |-> f, elems |-> elems], MapProgram(f, elems)) :
        f \in MapLambdas, elems \in SeqsUpTo(ElemForms, MaxColl)}

FilterRuns ==
    {Program([family |-> "filter", f |-> f, elems |-> elems],
             FilterProgram(f, elems)) :
        f \in FilterLambdas, elems \in SeqsUpTo(ElemForms, MaxColl)}

ReduceRuns ==
    {Program([family |-> "reduce", f |-> f, init |-> init, elems |-> elems],
             ReduceProgram(f, init, elems)) :
        f \in ReduceLambdas, init \in 0..MaxVal,
        elems \in SeqsUpTo(ElemForms, MaxColl)}

IfRuns ==
    {Program([family |-> "if", cond |-> cond, nops |-> nops],
             IfProgram(cond, nops)) :
        cond \in IfConds, nops \in 0..MaxIfOperands}

SymbolRuns ==
    {Program([family |-> "symbol", pos |-> pos, name |-> name, when |-> when],
             RefProgram(pos, name, when)) :
        pos \in RefPositions, name \in RefNames, when \in RefTimes}

DefineRuns ==
    {Program([family |-> "define", shape |-> shape, outer |-> outer,
              x0 |-> v[1], x1 |-> v[2]],
             DefineProgram(shape, outer, v[1], v[2])) :
        shape \in DefineShapes, outer \in BOOLEAN, v \in ValuePairs}

ArityRuns ==
    {Program([family |-> "arity", k |-> k, m |-> m], ArityProgram(k, m)) :
        k \in 0..MaxParams, m \in 0..MaxArgs}

\* the shapes with the atoms each takes: literals as branches, values as items
AtomCases ==
    {x \in [shape : AtomShapes, c : BOOLEAN, a : AtomValues, b : AtomValues] :
        /\ x.a # x.b
        /\ IF x.shape = "item" THEN x.c ELSE {x.a, x.b} \subseteq AtomLiterals}

AtomRuns ==
    {ProgramText([family |-> "atom", shape |-> x.shape, c |-> x.c,
                  a |-> x.a, b |-> x.b],
                 AtomText(x.shape, x.c, x.a, x.b)) : x \in AtomCases}

WideRuns ==
    {ProgramText([family |-> "wide", op |-> o.op, left |-> l, right |-> r],
                 Form(<<o.word, l.word, r.word>>)) :
        o \in OperatorWords, l \in WideOperands, r \in WideOperands}

Programs ==
    BinaryOpRuns \cup SequenceRuns \cup ClosureRuns \cup SumNRuns \cup FactRuns
        \cup ScopeRuns \cup MapRuns \cup FilterRuns \cup ReduceRuns \cup IfRuns
        \cup SymbolRuns \cup DefineRuns \cup ArityRuns \cup AtomRuns \cup WideRuns

\* eval on one program in a new session
EvalProgram ==
    /\ pc = "idle"
    /\ \E run \in Programs :
        /\ Eval(run.inp, run.parsed_list, "done")
        /\ UNCHANGED <<current_source, unclosed_lparen, overflow_checks>>

\* tokenize(input) on one text; no environment is involved
Tokenize ==
    /\ pc = "idle"
    /\ \E text \in TokenizeTexts :
        /\ pc' = "done"
        /\ input' = [family |-> "tokenize", text |-> text]
        /\ result' = tokenize(text)
        /\ UNCHANGED <<program, frames, stdout, maxdepth, calls,
                       current_source, unclosed_lparen, overflow_checks,
                       atoms>>

\* a piece of text that main writes, as print_list's lines hold objects
MainText(s) == [tag |-> "Text", s |-> s]

\* main.rs 25: the parentheses the line opens less those it closes
ParenBalance(line) ==
    Cardinality({i \in 1..Len(line) : line[i] = LParenChar})
        - Cardinality({i \in 1..Len(line) : line[i] = RParenChar})

\* main.rs 38-51: the lines written for a Lambda
LambdaLines(params, body) ==
    <<<<MainText("(lambda (")>>>>
        \o [i \in 1..Len(params) |->
                IF i - 1 = Len(params[i]) - 1 THEN <<MainText(params[i])>>
                ELSE <<MainText(params[i] \o " ")>>]
        \o <<<<MainText(")")>>>>
        \o [i \in 1..Len(body) |-> <<MainText(" "), body[i]>>]

\* main.rs 32-53: the lines written for the value of a program
ValLines(val) ==
    <<<<MainText("val: "), val>>>>
        \o (CASE val.tag = "Void" -> <<>>
              [] val.tag = "Lambda" -> LambdaLines(val.params, val.body)
              [] OTHER -> <<<<MainText(""), val>>>>)

\* main.rs 21-23 and 57-58: exit, or the end of the input, leaves the loop
ReplExit(inp) ==
    /\ pc' = "exited"
    /\ input' = inp
    /\ stdout' = Append(stdout, <<MainText("Good bye")>>)
    /\ UNCHANGED <<program, result, frames, maxdepth, calls, current_source,
                   unclosed_lparen, overflow_checks, atoms>>

\* main.rs 25-29: a line that leaves a parenthesis open is kept for later
ReplContinue(inp, source, unclosed) ==
    /\ pc' = "repl"
    /\ input' = inp
    /\ current_source' = source
    /\ unclosed_lparen' = unclosed
    /\ UNCHANGED <<program, result, frames, stdout, maxdepth, calls,
                   overflow_checks, atoms>>

\* main.rs 31-54: the source, which parse reads as parsed_list, is evaluated
\* in the environment of the session; an error ends main (the `?`), a value
\* is written and the source emptied
ReplEval(inp, source, unclosed, parsed_list) ==
    LET e == eval(parsed_list, 1, Session)
    IN  /\ pc' = IF e.r.k = "Ok" THEN "repl" ELSE "exited"
        /\ input' = inp
        /\ program' = IF parsed_list.ok THEN parsed_list.root ELSE Void
        /\ result' = e.r
        /\ frames' = e.st.frames
        /\ stdout' = IF e.r.k = "Ok" THEN e.st.out \o ValLines(e.r.v)
                     ELSE e.st.out
        /\ maxdepth' = e.st.maxd
        /\ calls' = e.st.calls
        /\ atoms' = e.st.atoms
        /\ current_source' = IF e.r.k = "Ok" THEN <<>> ELSE source
        /\ unclosed_lparen' = unclosed
        /\ UNCHANGED overflow_checks

\* main.rs 20-55: the body of the loop on what read_line returns
ReplLine ==
    /\ \/ pc = "idle"
       \/ pc = "repl" /\ Len(input.reads) < MaxLines
    /\ \E read \in ReplReads :
           LET inp == [family |-> "repl",
                       reads |-> (IF pc = "idle" THEN <<>> ELSE input.reads)
                                     \o <<read>>]
           IN  IF read.kind = "Eof" \/ read.text = ExitLine THEN ReplExit(inp)
               ELSE IF unclosed_lparen + ParenBalance(read.text) > 0
               THEN ReplContinue(inp, current_source \o <<32>> \o read.text,
                                 unclosed_lparen + ParenBalance(read.text))
               ELSE ReplEval(inp, current_source \o <<32>> \o read.text,
                             unclosed_lparen + ParenBalance(read.text),
                             parse(current_source \o <<32>> \o read.text))

Next ==
    \/ ReplLine
    \/ EvalProgram
    \/ Tokenize

Spec == Init /\ [][Next]_vars

(***************************************************************************)
(* Reference semantics the claims are stated against.                      *)
(***************************************************************************)
RECURSIVE SeqOracle(_, _, _, _)
RECURSIVE Factorial(_)
RECURSIVE CountVia(_, _, _)

IsDefine(e) == e.tag = "List" /\ e.items[1] = Keyword("define")

\* the values an implicit sequence of SeqElems yields and the bindings it
\* leaves, reading elems[i..] with the bindings b made so far; ok is FALSE
\* when an element reads a name no earlier element defined
SeqOracle(elems, i, b, acc) ==
    IF i > Len(elems) THEN [ok |-> TRUE, vals |-> acc, binds |-> b]
    ELSE LET e == elems[i]
         IN  IF IsDefine(e)
             THEN SeqOracle(elems, i + 1,
                      [n \in DOMAIN b \cup {e.items[2].name} |->
                          IF n = e.items[2].name THEN e.items[3] ELSE b[n]], acc)
             ELSE IF e = Area
             THEN IF {"r", "pi"} \subseteq DOMAIN b
                  THEN SeqOracle(elems, i + 1, b,
                           Append(acc, Integer(b["pi"].n * b["r"].n * b["r"].n)))
                  ELSE [ok |-> FALSE]
             ELSE IF e = Symbol("nil") THEN SeqOracle(elems, i + 1, b, acc)
             ELSE IF e.tag = "Symbol"
             THEN IF e.name \in DOMAIN b
                  THEN SeqOracle(elems, i + 1, b, Append(acc, b[e.name]))
                  ELSE [ok |-> FALSE]
             ELSE SeqOracle(elems, i + 1, b, Append(acc, e))

Factorial(n) == IF n = 0 THEN 1 ELSE n * Factorial(n - 1)

\* the number of lambda invocations made through via among log[i..]
CountVia(log, i, via) ==
    IF i > Len(log) THEN 0
    ELSE (IF log[i].via = via THEN 1 ELSE 0) + CountVia(log, i + 1, via)

\* what the program of the scope family yields under lexical scoping
ScopeExpected(via, x0) ==
    IF via \in {"map", "filter"} THEN ListData(<<Integer(x0)>>) ELSE Integer(x0)

(***************************************************************************)
(* C1: an implicit sequence evaluates its elements left to right in one    *)
(* environment and returns the List of the non-Void results in order: a    *)
(* define contributes no element, its binding is read by the elements      *)
(* after it and is left in the frame the sequence ran in, and              *)
(* the program of test_area_of_a_circle yields List([Integer(31400)]).      *)
(***************************************************************************)
C1_ImplicitSequence ==
    (pc = "done" /\ input.family = "sequence") =>
        LET o == SeqOracle(input.elems, 1, NoVars, <<>>)
        IN  IF o.ok
            THEN /\ result = Ok(List(o.vals))
                 /\ frames[1].vars = o.binds
            ELSE result.k = "Err"

C1_Witness ==
    /\ pc = "done"
    /\ input.family = "sequence"
    /\ input.elems = <<Define("r", Integer(TestR)), Define("pi", Integer(TestPi)), Area>>
    /\ result = Ok(List(<<Integer(31400)>>))

(***************************************************************************)
(* C2: scoping is lexical.  The frame made for any lambda invocation       *)
(* (direct application, map, filter, reduce) has the frame the lambda      *)
(* captured as its parent, and a name free in the body is read from the    *)
(* definition-time chain although the caller's frame binds it otherwise.   *)
(***************************************************************************)
C2_LexicalScoping ==
    /\ \A i \in 1..Len(calls) : frames[calls[i].frame].parent = calls[i].closure
    /\ (pc = "done" /\ input.family = "scope") =>
            result = Ok(List(<<ScopeExpected(input.via, input.x0)>>))

C2_Witness ==
    /\ pc = "done"
    /\ input.family = "scope"
    /\ input.via = "reduce"
    /\ result = Ok(List(<<Integer(input.x0)>>))
    /\ \E i \in 1..Len(calls) :
          /\ calls[i].via = "reduce"
          /\ calls[i].caller # calls[i].closure
          /\ frames[calls[i].caller].vars["x"] = Integer(input.x1)
          /\ frames[calls[i].frame].parent = calls[i].closure

(***************************************************************************)
(* C3: with add defined as (lambda (a) (lambda (b) (+ a b))), the program  *)
(* ((define add ...) (add x y)) evaluates to List([Integer(x + y)]).       *)
(***************************************************************************)
C3_ClosureAddsBothArguments ==
    (pc = "done" /\ input.family = "closure") =>
        result = Ok(List(<<Integer(input.x + input.y)>>))

(***************************************************************************)
(* C4: (sum-n n 0) completes with n(n+1)/2 and the number of eval_obj      *)
(* invocations active at once is at most 4, whatever n is: the self tail   *)
(* call in head position does not nest invocations.                        *)
(***************************************************************************)
C4_TailCallConstantDepth ==
    (pc = "done" /\ input.family = "sum_n") =>
        /\ result = Ok(List(<<Integer((input.n * (input.n + 1)) \div 2)>>))
        /\ maxdepth <= 4

C4_Witness ==
    /\ pc = "done"
    /\ input.family = "sum_n"
    /\ input.n >= 3
    /\ CountVia(calls, 1, "apply") = input.n + 1
    /\ result.k = "Ok"
    /\ maxdepth <= 4

(***************************************************************************)
(* C5: fact, stored with define, calls itself by name in non-tail          *)
(* position: (fact n) is n!, every activation has its own frame binding n, *)
(* and each of these frames is a child of the frame define wrote fact to.  *)
(***************************************************************************)
C5_FactorialRecursion ==
    (pc = "done" /\ input.family = "fact") =>
        /\ result = Ok(List(<<Integer(Factorial(input.n))>>))
        /\ Len(calls) = input.n + 1
        /\ \A i \in 1..Len(calls) :
              /\ frames[calls[i].frame].vars["n"] = Integer(input.n + 1 - i)
              /\ frames[calls[i].frame].parent = 1
        /\ frames[1].vars["fact"].tag = "Lambda"

C5_Witness ==
    /\ pc = "done"
    /\ input.family = "fact"
    /\ input.n = 5
    /\ result = Ok(List(<<Integer(120)>>))

(***************************************************************************)
(* Reference semantics of the combinators: what each named lambda yields   *)
(* for a value, and the value each element form of a collection has.       *)
(***************************************************************************)
RECURSIVE FoldOracle(_, _, _, _)
RECURSIVE KeepOracle(_, _, _)

ElemValue(form) ==
    IF form = EmptySeqForm THEN List(<<>>)
    ELSE IF form = PairSeqForm THEN List(<<Integer(1), Integer(2)>>)
    ELSE form

ElemValues(elems) == [i \in 1..Len(elems) |-> ElemValue(elems[i])]

\* the body of a MapLambdas lambda on v
MapOracle(f, v) ==
    IF f = "wrap" THEN [ok |-> TRUE, val |-> ListData(<<v>>)]
    ELSE IF v.tag = "Integer" THEN [ok |-> TRUE, val |-> Integer(v.n * v.n)]
    ELSE [ok |-> FALSE]

\* the body of a FilterLambdas lambda on v: "true", "false", "nonbool", "error"
PredOracle(f, v) ==
    CASE f = "always" -> "true"
      [] f = "nonbool" -> "nonbool"
      [] f = "even" -> IF v.tag # "Integer" THEN "error"
                       ELSE IF v.n % 2 = 0 THEN "true" ELSE "false"
      [] f = "big" -> IF v.tag # "Integer" THEN "error"
                      ELSE IF v.n > 1 THEN "true" ELSE "false"

\* the body of a ReduceLambdas lambda on (accumulator a, element b)
StepOracle(f, a, b) ==
    IF f = "pair" THEN [ok |-> TRUE, val |-> ListData(<<a, b>>)]
    ELSE IF a.tag = "Integer" /\ b.tag = "Integer"
         THEN [ok |-> TRUE,
               val |-> Integer(IF f = "add" THEN a.n + b.n ELSE a.n - b.n)]
    ELSE [ok |-> FALSE]

\* the left fold of f over vals[i..] from accumulator a
FoldOracle(f, vals, i, a) ==
    IF i > Len(vals) THEN [ok |-> TRUE, val |-> a]
    ELSE LET s == StepOracle(f, a, vals[i])
         IN  IF s.ok THEN FoldOracle(f, vals, i + 1, s.val) ELSE [ok |-> FALSE]

\* the elements of vals[i..] for which the predicate f is true, in order
KeepOracle(f, vals, i) ==
    IF i > Len(vals) THEN <<>>
    ELSE (IF PredOracle(f, vals[i]) = "true" THEN <<vals[i]>> ELSE <<>>)
         \o KeepOracle(f, vals, i + 1)

HasEmptyList(elems) == \E i \in 1..Len(elems) : elems[i] = EmptySeqForm

(***************************************************************************)
(* C6: (map f coll) returns the ListData of the n body results in input    *)
(* order, the i-th computed in a fresh child frame of f's closure frame    *)
(* with the parameter bound to the i-th element as stored, whatever value  *)
(* the element is, a List value included.                                  *)
(***************************************************************************)
C6_MapBindsElementsAsStored ==
    (pc = "done" /\ input.family = "map") =>
        LET vals == ElemValues(input.elems)
        IN  (\A i \in 1..Len(vals) : MapOracle(input.f, vals[i]).ok) =>
                /\ result = Ok(List(<<ListData(
                       [i \in 1..Len(vals) |-> MapOracle(input.f, vals[i]).val])>>))
                /\ Len(calls) = Len(vals)
                /\ \A i \in 1..Len(calls) :
                      /\ calls[i].via = "map"
                      /\ frames[calls[i].frame].parent = 1
                      /\ frames[calls[i].frame].vars =
                            [n \in {IF input.f = "sqr" THEN "r" ELSE "x"} |-> vals[i]]

\* what the code does: C6 holds of every collection that holds no empty List
\* value, and the evaluation faults on the first element that is one
C6_MapReevaluatesElements ==
    (pc = "done" /\ input.family = "map") =>
        IF HasEmptyList(input.elems)
        THEN (\A i \in 1..Len(input.elems) :
                 MapOracle(input.f, ElemValue(input.elems[i])).ok)
             => result = Panic("index out of bounds")
        ELSE C6_MapBindsElementsAsStored

(***************************************************************************)
(* C7: (filter p coll) returns the ListData of the original elements, in   *)
(* order, whose body result is Bool(true); an element whose body result is *)
(* Bool(false) or not a Bool is left out and causes no error.              *)
(***************************************************************************)
C7_FilterKeepsOriginalElements ==
    (pc = "done" /\ input.family = "filter") =>
        LET vals == ElemValues(input.elems)
        IN  (\A i \in 1..Len(vals) : PredOracle(input.f, vals[i]) # "error") =>
                result = Ok(List(<<ListData(KeepOracle(input.f, vals, 1))>>))

C7_FilterOffEmptyLists ==
    (pc = "done" /\ input.family = "filter") =>
        IF HasEmptyList(input.elems)
        THEN (\A i \in 1..Len(input.elems) :
                 PredOracle(input.f, ElemValue(input.elems[i])) # "error")
             => result = Panic("index out of bounds")
        ELSE C7_FilterKeepsOriginalElements

(***************************************************************************)
(* C8: (reduce f init coll) is the left fold of f over coll from the seed  *)
(* init, the body run for each element in a fresh child frame of f's       *)
(* closure frame with (first, second) parameter bound to (accumulator,     *)
(* element); an empty coll returns the seed and runs no body.              *)
(***************************************************************************)
C8_ReduceIsLeftFold ==
    (pc = "done" /\ input.family = "reduce") =>
        LET vals == ElemValues(input.elems)
            o == FoldOracle(input.f, vals, 1, Integer(input.init))
        IN  o.ok =>
                /\ result = Ok(List(<<o.val>>))
                /\ Len(calls) = Len(vals)
                /\ \A i \in 1..Len(calls) :
                      /\ calls[i].via = "reduce"
                      /\ frames[calls[i].frame].parent = 1
                      /\ frames[calls[i].frame].vars["b"] = vals[i]

C8_ReduceOffEmptyLists ==
    (pc = "done" /\ input.family = "reduce") =>
        IF HasEmptyList(input.elems)
        THEN FoldOracle(input.f, ElemValues(input.elems), 1, Integer(input.init)).ok
             => result = Panic("index out of bounds")
        ELSE C8_ReduceIsLeftFold

(***************************************************************************)
(* Reference typing of the operand forms of the binop family.              *)
(***************************************************************************)
TypeOf(form) ==
    IF form.tag \in {"Integer", "Float", "String"} THEN form.tag
    ELSE IF form \in {Symbol("true"), Symbol("false")} THEN "Bool"
    ELSE IF form = Symbol("nil") THEN "Void"
    ELSE "ListData"

Arith == {"+", "-", "*", "/", "%"}

Logic == {"&", "|"}

NumericTypes == {"Integer", "Float"}

TypeErrorOf(op) ==
    CASE op = "+" -> "Invalid types for + operator"
      [] op = "-" -> "Invalid types for - operator"
      [] op = "*" -> "Invalid types for * operator"
      [] op = "/" -> "Invalid types for / operator"
      [] op = "%" -> "Invalid types for % operator"
      [] op = "<" -> "Invalid types for < operator"
      [] op = ">" -> "Invalid types for > operator"
      [] op = "=" -> "Invalid types for == operator"
      [] op = "!=" -> "Invalid types for != operator"
      [] op = "&" -> "Invalid types for & operator"
      [] op = "|" -> "Invalid types for | operator"

\* the value of an Integer or finite Float operand form as the fraction
\* NumOf / DenOf; the operands of the family have significands of a few bits
NumOf(form) ==
    IF form.tag = "Integer" THEN form.n
    ELSE (IF form.f.neg THEN -1 ELSE 1) * BToNat(form.f.m)
             * (IF form.f.e > 0 THEN 2^form.f.e ELSE 1)

DenOf(form) ==
    IF form.tag = "Integer" \/ form.f.e >= 0 THEN 1 ELSE 2^(-form.f.e)

ResultIs(tag) == result.k = "Ok" /\ result.v.tag = tag

(***************************************************************************)
(* C9 as stated: for + - * / % Integer with Integer gives an Integer and   *)
(* any Integer/Float mix or Float with Float a Float; String with String   *)
(* is accepted by + alone, Bool with Bool by & and | alone; every other    *)
(* (operator, left type, right type) returns a type error, never a value.  *)
(***************************************************************************)
C9_DispatchAsStated ==
    (pc = "done" /\ input.family = "binop") =>
        LET tl == TypeOf(input.left)
            tr == TypeOf(input.right)
        IN  CASE input.op \in Arith /\ tl = "Integer" /\ tr = "Integer" ->
                    ResultIs("Integer")
              [] input.op \in Arith /\ {tl, tr} \subseteq NumericTypes
                                    /\ "Float" \in {tl, tr} -> ResultIs("Float")
              [] input.op = "+" /\ tl = "String" /\ tr = "String" ->
                    ResultIs("String")
              [] input.op \in Logic /\ tl = "Bool" /\ tr = "Bool" ->
                    ResultIs("Bool")
              [] OTHER -> result.k = "Err"

(***************************************************************************)
(* Reference arithmetic on the operands of the wide family.  An integer is *)
(* the coefficients of hi * 2^126 + c1 * 2^63 + c0, c0 of a few bits.      *)
(***************************************************************************)
Coeffs(hi, c1, c0) == [hi |-> hi, c1 |-> c1, c0 |-> c0]

CoeffsOf(operand) == Coeffs(0, operand.c1, operand.c0)

\* -2^63 <= x < 2^63
FitsI64(x) ==
    /\ x.hi = 0
    /\ \/ x.c1 = 0
       \/ x.c1 = -1 /\ x.c0 >= 0
       \/ x.c1 = 1 /\ x.c0 < 0

\* the i64 congruent to x modulo 2^64
Wrapped(x) ==
    IF x.c1 % 2 = 0 THEN Coeffs(0, 0, x.c0)
    ELSE Coeffs(0, IF x.c0 >= 0 THEN -1 ELSE 1, x.c0)

\* the Integer object of an x that fits
IntegerOf(x) ==
    IF x.c1 = 0 THEN Integer(x.c0)
    ELSE WideInteger(x.c1 < 0, BSub(BShl(<<1>>, 63), BFromNat(Abs(x.c0))))

Exact(op, l, r) ==
    CASE op = "+" -> Coeffs(0, l.c1 + r.c1, l.c0 + r.c0)
      [] op = "-" -> Coeffs(0, l.c1 - r.c1, l.c0 - r.c0)
      [] op = "*" -> Coeffs(l.c1 * r.c1, l.c1 * r.c0 + r.c1 * l.c0, l.c0 * r.c0)

OverflowPanic(op) ==
    CASE op = "+" -> Panic("attempt to add with overflow")
      [] op = "-" -> Panic("attempt to subtract with overflow")
      [] op = "*" -> Panic("attempt to multiply with overflow")

\* the quotient of small integers, truncated toward zero
QuotOf(l, r) ==
    IF (l >= 0) = (r > 0) THEN Abs(l) \div Abs(r) ELSE -(Abs(l) \div Abs(r))

\* l / r for r other than 0, and other than -1 under i64::MIN
WideQuot(l, r) ==
    IF r.c1 # 0
    THEN Integer(IF l = r THEN 1 ELSE IF l.c1 = -1 THEN -1 ELSE 0)
    ELSE IF l.c1 = 0 THEN Integer(QuotOf(l.c0, r.c0))
    ELSE IF r.c0 = 1 THEN IntegerOf(l)
    ELSE IF r.c0 = -1 THEN IntegerOf(Coeffs(0, -l.c1, -l.c0))
    \* by 2: -2^62 under i64::MIN, 2^62 - 1 under i64::MAX
    ELSE IF l.c1 = -1 THEN WideInteger(TRUE, BShl(<<1>>, 62))
    ELSE WideInteger(FALSE, BSub(BShl(<<1>>, 62), <<1>>))

\* l % r for the same operands: l less r times the quotient
WideRem(l, r) ==
    IF r.c1 # 0
    THEN (IF l = r THEN Integer(0)
          ELSE IF l.c1 = 0 THEN Integer(l.c0)
          ELSE IF l.c1 = -1 THEN Integer(-1)
          ELSE IntegerOf(l))
    ELSE IF l.c1 = 0 THEN Integer(l.c0 - r.c0 * QuotOf(l.c0, r.c0))
    ELSE IF r.c0 \in {1, -1} THEN Integer(0)
    ELSE Integer(IF l.c1 = -1 THEN 0 ELSE 1)

\* l < r
WideLess(l, r) == l.c1 < r.c1 \/ (l.c1 = r.c1 /\ l.c0 < r.c0)

\* what the operator gives on two Integers, each build having its profile
WideOutcome(op, l, r, checked) ==
    CASE op \in {"+", "-", "*"} ->
            IF FitsI64(Exact(op, l, r)) THEN Ok(IntegerOf(Exact(op, l, r)))
            ELSE IF checked THEN OverflowPanic(op)
            ELSE Ok(IntegerOf(Wrapped(Exact(op, l, r))))
      [] op = "/" ->
            IF r.c1 = 0 /\ r.c0 = 0 THEN Panic("attempt to divide by zero")
            ELSE IF l.c1 = -1 /\ r.c1 = 0 /\ r.c0 = -1
            THEN Panic("attempt to divide with overflow")
            ELSE Ok(WideQuot(l, r))
      [] op = "%" ->
            IF r.c1 = 0 /\ r.c0 = 0
            THEN Panic("attempt to calculate the remainder with a divisor of zero")
            ELSE IF l.c1 = -1 /\ r.c1 = 0 /\ r.c0 = -1
            THEN Panic("attempt to calculate the remainder with overflow")
            ELSE Ok(WideRem(l, r))
      [] op = "<" -> Ok(Bool(WideLess(l, r)))
      [] op = ">" -> Ok(Bool(WideLess(r, l)))
      [] op = "=" -> Ok(Bool(l = r))
      [] op = "!=" -> Ok(Bool(l # r))
      [] OTHER -> Err(TypeErrorOf(op), "")

\* the order of two operand forms of the binop family that are both numbers
\* or both Strings of one character
Less(l, r) ==
    IF l.tag = "String" THEN l.s[1] < r.s[1]
    ELSE NumOf(l) * DenOf(r) < NumOf(r) * DenOf(l)

(***************************************************************************)
(* C9 amended: dispatch is determined by the operand types for all eleven  *)
(* operators.  For + - * / % Integer with Integer gives an Integer unless  *)
(* the operation faults: / and % panic on a zero divisor and on i64::MIN   *)
(* with -1 in every build, and + - * whose exact result is outside i64     *)
(* panic in a build with overflow checks and give the wrapped Integer in a *)
(* build without.  Any Integer/Float mix or Float with Float gives a       *)
(* Float; String with String is accepted by + (the concatenation) alone    *)
(* among these.  < > and != accept Integer with Integer, any Integer/Float *)
(* mix, Float with Float and String with String, = accepts Integer with    *)
(* Integer and String with String, and each returns the Bool of the        *)
(* comparison.  Bool with Bool is accepted by & and | alone.  Every other  *)
(* (operator, left type, right type) returns the type error of the         *)
(* operator.  (+ 1 2) is Integer(3), (+ 1 2.0) is Float(3.0).              *)
(***************************************************************************)
C9_OperatorDispatch ==
    /\ (pc = "done" /\ input.family = "binop") =>
        LET op == input.op
            l == input.left
            r == input.right
            tl == TypeOf(input.left)
            tr == TypeOf(input.right)
            mix == {tl, tr} \subseteq NumericTypes /\ "Float" \in {tl, tr}
        IN  CASE tl = "Integer" /\ tr = "Integer" /\ op \notin Logic ->
                    result = WideOutcome(op, Coeffs(0, 0, l.n), Coeffs(0, 0, r.n),
                                         overflow_checks)
              [] op \in Arith /\ mix ->
                    /\ ResultIs("Float")
                    /\ (op = "+" /\ l = Integer(1) /\ r = Float(F64(2, 1)))
                           => result = Ok(Float(F64(3, 1)))
              [] op = "+" /\ tl = "String" /\ tr = "String" ->
                    result = Ok(String(l.s \o r.s))
              [] op \in {"<", ">", "!="}
                     /\ (mix \/ (tl = "String" /\ tr = "String")) ->
                    result = Ok(Bool(CASE op = "<" -> Less(l, r)
                                       [] op = ">" -> Less(r, l)
                                       [] op = "!=" -> Less(l, r) \/ Less(r, l)))
              [] op = "=" /\ tl = "String" /\ tr = "String" ->
                    result = Ok(Bool(l.s = r.s))
              [] op \in Logic /\ tl = "Bool" /\ tr = "Bool" ->
                    result = Ok(Bool(IF op = "&"
                                     THEN l = Symbol("true") /\ r = Symbol("true")
                                     ELSE l = Symbol("true") \/ r = Symbol("true")))
              [] OTHER -> result = Err(TypeErrorOf(op), "")
    /\ (pc = "done" /\ input.family = "wide") =>
           result = WideOutcome(input.op, CoeffsOf(input.left),
                                CoeffsOf(input.right), overflow_checks)

\* i64::MIN / -1 is Integer with Integer and faults, the divisor not zero
C9_Witness ==
    /\ pc = "done"
    /\ input.family = "wide"
    /\ input.op = "/"
    /\ CoeffsOf(input.left) = Coeffs(0, -1, 0)
    /\ CoeffsOf(input.right) = Coeffs(0, 0, -1)
    /\ program = List(<<BinaryOp("/"), WideInteger(TRUE, BShl(<<1>>, 63)),
                        Integer(-1)>>)
    /\ result = Panic("attempt to divide with overflow")

(***************************************************************************)
(* C10 as stated: = and != both return a type error whenever an operand is *)
(* a Float, and a Bool for Integer/Integer and String/String.              *)
(***************************************************************************)
C10_NoFloatCaseAsStated ==
    (pc = "done" /\ input.family = "binop" /\ input.op \in {"=", "!="}) =>
        LET tl == TypeOf(input.left)
            tr == TypeOf(input.right)
        IN  /\ "Float" \in {tl, tr} => result.k = "Err"
            /\ (tl = tr /\ tl \in {"Integer", "String"}) => ResultIs("Bool")

(***************************************************************************)
(* C10 amended: only = has no case for Float operands and returns a type   *)
(* error whenever an operand is a Float; != is defined for Float/Float,    *)
(* Integer/Float and Float/Integer and returns the Bool of the numeric     *)
(* inequality (a type error for a Float with a non-number).  Both return   *)
(* a Bool for Integer/Integer and String/String.                           *)
(***************************************************************************)
C10_EqualityFloatCases ==
    (pc = "done" /\ input.family = "binop" /\ input.op \in {"=", "!="}) =>
        LET tl == TypeOf(input.left)
            tr == TypeOf(input.right)
            same == IF tl = "String" THEN input.left.s = input.right.s
                    ELSE NumOf(input.left) * DenOf(input.right)
                             = NumOf(input.right) * DenOf(input.left)
        IN  /\ ("Float" \in {tl, tr} /\ input.op = "=") =>
                   result = Err("Invalid types for == operator", "")
            /\ ("Float" \in {tl, tr} /\ input.op = "!=") =>
                   IF {tl, tr} \subseteq NumericTypes
                   THEN result = Ok(Bool(~same))
                   ELSE result = Err("Invalid types for != operator", "")
            /\ (tl = tr /\ tl \in {"Integer", "String"}) =>
                   result = Ok(Bool(IF input.op = "=" THEN same ELSE ~same))

C10_Witness ==
    /\ pc = "done"
    /\ input.family = "binop"
    /\ input.op = "!="
    /\ input.left = Float(F64(1, 2))
    /\ input.right = Integer(0)
    /\ result = Ok(Bool(TRUE))

(***************************************************************************)
(* C11: an if form with other than three operands is an error and nothing  *)
(* of it is evaluated, the condition included.  With three operands, a     *)
(* condition that yields no Bool ends in an error and neither branch is    *)
(* evaluated (no binding written, no line printed by a branch); a Bool     *)
(* condition has exactly the chosen branch evaluated, whose binding and    *)
(* line are the only ones.                                                 *)
(***************************************************************************)
BranchLines == {<<Integer(1)>>, <<Integer(2)>>}

C11_IfEvaluatesOnlyChosenBranch ==
    (pc = "done" /\ input.family = "if") =>
        IF input.nops # 3
        THEN /\ result.k = "Err"
             /\ frames = <<Env_new>>
             /\ stdout = <<>>
        ELSE IF input.cond \in TrueConds
        THEN /\ result = Ok(List(<<>>))
             /\ frames = <<[vars |-> "t" :> Integer(1), parent |-> 0]>>
             /\ stdout = <<<<Integer(1)>>>>
        ELSE IF input.cond \in FalseConds
        THEN /\ result = Ok(List(<<>>))
             /\ frames = <<[vars |-> "e" :> Integer(2), parent |-> 0]>>
             /\ stdout = <<<<Integer(2)>>>>
        ELSE /\ result.k = "Err"
             /\ DOMAIN frames[1].vars \cap {"t", "e"} = {}
             /\ \A i \in 1..Len(stdout) : stdout[i] \notin BranchLines

\* a condition that yields Void after printing: the condition ran, no branch did
C11_Witness ==
    /\ pc = "done"
    /\ input.family = "if"
    /\ input.nops = 3
    /\ input.cond = PrintForm(Integer(9))
    /\ result = Err("Condition must be a boolean", "")
    /\ stdout = <<<<Integer(9)>>>>
    /\ frames = <<Env_new>>

(***************************************************************************)
(* Reference semantics of the reserved names.                              *)
(***************************************************************************)
ReservedValue(name) ==
    CASE name = "true" -> Bool(TRUE)
      [] name = "false" -> Bool(FALSE)
      [] name = "nil" -> Void

(***************************************************************************)
(* C12 as stated: a reference to a name with no binding on the frame chain *)
(* (a forward reference from a lambda body and a name bound only in the    *)
(* caller's frame included) is the error "Unbound symbol" naming it, and   *)
(* true, false, nil never go through the environment: a binding made for   *)
(* one of them is never what a reference to it resolves to.                *)
(***************************************************************************)
C12_UnboundSymbolAsStated ==
    (pc = "done" /\ input.family = "symbol") =>
        IF input.name \in ReservedNames
        THEN IF input.pos = "head"
             THEN result # Ok(List(<<Integer(2)>>))
             ELSE result = Ok(List(<<ListData(<<ReservedValue(input.name)>>)>>))
        ELSE IF input.when = "before"
             THEN result.k = "Ok"
             ELSE result = Err("Unbound symbol", input.name)

(***************************************************************************)
(* C12: a name evaluated as an expression that has no binding on the frame *)
(* chain, when it is evaluated, is the error "Unbound symbol" naming it,   *)
(* never a value; true, false, nil evaluated as expressions are            *)
(* Bool(true), Bool(false), Void whatever binding exists for them.  A name *)
(* in the head of an application is looked up in the environment only: with *)
(* no binding it is the error "Unbound function" naming it, and a reserved *)
(* name bound to a lambda is applied.                                      *)
(***************************************************************************)
C12_UnboundNames ==
    (pc = "done" /\ input.family = "symbol") =>
        IF input.pos = "head"
        THEN IF input.when = "before"
             THEN result = Ok(List(<<Integer(2)>>))
             ELSE result = Err("Unbound function", input.name)
        ELSE IF input.name \in ReservedNames
        THEN result = Ok(List(<<ListData(<<ReservedValue(input.name)>>)>>))
        ELSE IF input.when = "before"
        THEN result = Ok(List(<<ListData(<<Integer(5)>>)>>))
        ELSE result = Err("Unbound symbol", input.name)

\* the body of f reads u, which only the frame of f's caller binds
C12_Witness ==
    /\ pc = "done"
    /\ input.family = "symbol"
    /\ input.pos = "callee"
    /\ input.name = "u"
    /\ input.when = "after"
    /\ \E i \in 1..Len(frames) : frames[i].vars = "u" :> Integer(7)
    /\ result = Err("Unbound symbol", "u")

(***************************************************************************)
(* C13: define writes only into the frame it is evaluated in.  After       *)
(* (define x expr) ran in the call frame of f, that frame binds x to the   *)
(* value of expr (read through the frame chain), the root frame's bindings *)
(* are what they were (its own x still x0, or still absent, so that the    *)
(* read of x in the root frame yields x0 or is unbound), and the form      *)
(* yielded Void.  A define with other than two operands or with a name     *)
(* that is no Symbol is an error, its expression is not evaluated (nothing *)
(* printed) and no frame changes.                                          *)
(***************************************************************************)
RootOf(outer, x0) ==
    IF outer THEN {<<"x", Integer(x0)>>} ELSE {}

\* the bindings of a frame as a set of pairs, the lambda f left out
BindingsOf(frame) ==
    {<<n, frame.vars[n]>> : n \in DOMAIN frame.vars \ {"f"}}

C13_DefineWritesLocalFrame ==
    (pc = "done" /\ input.family = "define") =>
        LET a == Integer(input.x1)
            root == RootOf(input.outer, input.x0)
        IN  /\ Len(frames) = 2
            /\ frames[2].parent = 1
            /\ BindingsOf(frames[1]) = root
            /\ frames[1].vars["f"].tag = "Lambda"
            /\ IF input.shape = "set"
               THEN /\ BindingsOf(frames[2]) = {<<"a", a>>, <<"x", a>>}
                    /\ result =
                          IF input.outer
                          THEN Ok(List(<<List(<<ListData(<<Void>>), a>>),
                                         Integer(input.x0)>>))
                          ELSE Err("Unbound symbol", "x")
               ELSE IF input.shape = "read"
               THEN IF input.outer
                    THEN LET sum == Integer(input.x0 + input.x1)
                         IN  /\ BindingsOf(frames[2]) = {<<"a", a>>, <<"x", sum>>}
                             /\ result = Ok(List(<<List(<<ListData(<<Void>>), sum>>),
                                                   Integer(input.x0)>>))
                    ELSE /\ BindingsOf(frames[2]) = {<<"a", a>>}
                         /\ result = Err("Unbound symbol", "x")
               ELSE /\ BindingsOf(frames[2]) = {<<"a", a>>}
                    /\ result.k = "Err"
                    /\ result.msg \in {"Invalid number of arguments for define",
                                       "Invalid define"}
                    /\ stdout = <<>>

\* x is defined in the call frame while the root frame binds x to another value
C13_Witness ==
    /\ pc = "done"
    /\ input.family = "define"
    /\ input.shape = "set"
    /\ input.outer
    /\ frames[2].vars["x"] = Integer(input.x1)
    /\ frames[1].vars["x"] = Integer(input.x0)
    /\ result.k = "Ok"

(***************************************************************************)
(* Reference semantics of the lexer: the tokens of a text read as          *)
(* parentheses, double-quoted strings and maximal runs of the other        *)
(* characters that are no whitespace.                                      *)
(***************************************************************************)
\* the number of double quotes before place i of the text
QuotesBefore(text, i) == Cardinality({j \in 1..(i - 1) : text[j] = QuoteChar})

\* place i is after a double quote that opens a string, and not after the
\* one that closes it
InString(text, i) == QuotesBefore(text, i) % 2 = 1

\* place i holds a character of a run
InRun(text, i) ==
    /\ i \in 1..Len(text)
    /\ ~InString(text, i)
    /\ text[i] \notin {LParenChar, RParenChar, QuoteChar}
    /\ ~is_whitespace(text[i])

\* the places where a token starts: a parenthesis, the double quote that
\* opens a string, the first character of a run
TokenStarts(text) ==
    {i \in 1..Len(text) :
        /\ ~InString(text, i)
        /\ \/ text[i] \in {LParenChar, RParenChar, QuoteChar}
           \/ InRun(text, i) /\ ~InRun(text, i - 1)}

\* the last place of the run that starts at place i
RunEnd(text, i) ==
    CHOOSE j \in i..Len(text) :
        (\A k \in i..j : InRun(text, k)) /\ ~InRun(text, j + 1)

\* the place of the next double quote after place i
NextQuote(text, i) ==
    CHOOSE j \in (i + 1)..Len(text) :
        text[j] = QuoteChar /\ \A k \in (i + 1)..(j - 1) : text[k] # QuoteChar

\* the token that starts at place i
TokenAt(text, i) ==
    IF text[i] = LParenChar THEN Token_LParen
    ELSE IF text[i] = RParenChar THEN Token_RParen
    ELSE IF text[i] = QuoteChar
    THEN Token_String(SubSeq(text, i + 1, NextQuote(text, i) - 1))
    ELSE classify(SubSeq(text, i, RunEnd(text, i)))

\* the k-th element of a set of numbers, in increasing order
Kth(S, k) == CHOOSE s \in S : Cardinality({t \in S : t < s}) = k - 1

\* the tokens of the text in source order, or the error of a string that is
\* not closed, which carries the characters after its opening double quote
RunTokens(text) ==
    IF InString(text, Len(text) + 1)
    THEN TokenError("Unterminated string",
                    SubSeq(text, Highest({i \in 1..Len(text) :
                                             text[i] = QuoteChar}) + 1,
                           Len(text)))
    ELSE Ok([k \in 1..Cardinality(TokenStarts(text)) |->
                TokenAt(text, Kth(TokenStarts(text), k))])

\* every run of the text is followed by whitespace or a parenthesis
RunsDelimited(text) ==
    \A i \in 1..Len(text) :
        InRun(text, i) =>
            /\ i < Len(text)
            /\ text[i + 1] # QuoteChar

(***************************************************************************)
(* C14: for every text tokenize returns, in source order, one LParen or    *)
(* RParen per parenthesis, one String token per double-quoted string and   *)
(* one token per maximal run of characters that are neither whitespace,    *)
(* parenthesis nor double quote, carrying all the characters of the run,   *)
(* whether a delimiter follows the run or the text ends with it; an        *)
(* unterminated string is an error.                                        *)
(***************************************************************************)
C14_TokenizeMaximalRuns ==
    (pc = "done" /\ input.family = "tokenize") =>
        result = RunTokens(input.text)

\* the same for the texts in which whitespace or a parenthesis follows every
\* run, the texts of test_add and test_area_of_a_circle among them
C14_TokenizeDelimitedRuns ==
    (pc = "done" /\ input.family = "tokenize"
        /\ RunsDelimited(input.text)) =>
            result = RunTokens(input.text)

(***************************************************************************)
(* C15: direct application makes no arity check.  With m >= k argument     *)
(* forms for k parameters, the first k arguments are evaluated left to     *)
(* right in the caller's frame (where x is 7) and bound in order in the    *)
(* new frame, and the arguments after them are not evaluated: they print   *)
(* nothing and no frame or result shows them.  With m < k the evaluation   *)
(* ends in an index-out-of-bounds fault, not an error value, after the m   *)
(* arguments were evaluated.                                               *)
(***************************************************************************)
ArgValue(i) == List(<<Integer(7 + i)>>)

C15_NoArityCheck ==
    (pc = "done" /\ input.family = "arity") =>
        LET k == input.k
            m == input.m
        IN  /\ stdout = [i \in 1..Min(k, m) |-> <<Integer(i)>>]
            /\ Len(frames) = 3
            /\ frames[1].vars["x"] = Integer(0)
            /\ frames[2] = [vars |-> "x" :> Integer(7), parent |-> 1]
            /\ frames[3].parent = 1
            /\ DOMAIN frames[3].vars = {ParamNames[i] : i \in 1..Min(k, m)}
            /\ \A i \in 1..Min(k, m) : frames[3].vars[ParamNames[i]] = ArgValue(i)
            /\ IF m >= k
               THEN result = Ok(List(<<ListData([i \in 1..k |-> ArgValue(i)])>>))
               ELSE result = Panic("index out of bounds")

\* more arguments than parameters: the surplus is ignored
C15_Witness ==
    /\ pc = "done"
    /\ input.family = "arity"
    /\ input.k = 2
    /\ input.m = 3
    /\ stdout = <<<<Integer(1)>>, <<Integer(2)>>>>
    /\ result = Ok(List(<<ListData(<<ArgValue(1), ArgValue(2)>>)>>))

(***************************************************************************)
(* C16: whenever the current form of eval_obj is an Integer, Float, Bool,  *)
(* String, Lambda or ListData, the value returned is that current form,    *)
(* whether eval_obj was called with it or the loop reached it: as the      *)
(* chosen branch of an if form, of an if form nested in a branch, or of    *)
(* the if form that is the body of an applied lambda.  Every atom met in   *)
(* any run is in the log; in the runs of the atom family the atom written  *)
(* is met, it is the value of the program, and a Bool, a Lambda and a      *)
(* ListData are met as the items map evaluates again.                      *)
(***************************************************************************)
\* the object a literal of the family is read as
AtomOf(text) ==
    CASE text = <<49>> -> Integer(1)
      [] text = <<48, 46, 53>> -> Float(F64(1, 2))
      [] text = <<34, 97, 34>> -> String(<<97>>)

\* the kind of value a text of the family evaluates to
KindOf(text) ==
    CASE text = TrueWord -> "Bool"
      [] text = LambdaText -> "Lambda"
      [] text = ListText -> "ListData"
      [] OTHER -> AtomOf(text).tag

\* the log holds an atom of the kind of text that eval_obj was called with
MetAsCalled(text) ==
    \E x \in atoms :
        x.current.tag = KindOf(text) /\ x.called = x.current /\ x.value = x.current

\* the log holds the literal text as a current form the loop reached from the
\* form called
MetAsReached(text, called) ==
    \E x \in atoms :
        x.called = called /\ x.current = AtomOf(text) /\ x.value = AtomOf(text)

C16_AtomsEvaluateToThemselves ==
    /\ \A x \in atoms : x.value = x.current
    /\ (pc = "done" /\ input.family = "atom") =>
        CASE input.shape = "element" ->
                /\ result = Ok(List(<<AtomOf(input.a)>>))
                /\ MetAsCalled(input.a)
          [] input.shape \in {"branch", "nested"} ->
                /\ result = Ok(AtomOf(input.a))
                /\ MetAsReached(input.a, program)
          [] input.shape = "body" ->
                /\ result = Ok(List(<<AtomOf(input.a)>>))
                /\ MetAsReached(input.a, List(<<Symbol("f")>>))
          [] input.shape = "item" ->
                /\ result.k = "Ok"
                /\ MetAsCalled(input.a)
                /\ MetAsCalled(input.b)

\* an atom reached through two if forms, and one eval_obj is called with
C16_Witness ==
    /\ pc = "done"
    /\ input.family = "atom"
    /\ input.shape = "nested"
    /\ input.a = <<48, 46, 53>>
    /\ result = Ok(Float(F64(1, 2)))
    /\ \E x \in atoms :
          /\ x.called = program
          /\ x.called # x.current
          /\ x.value = Float(F64(1, 2))

====
